---- MODULE Spec2Model ----
(***************************************************************************)
(* The string interning subsystem of astral: Subsystem, EntryHashTable,    *)
(* StaticRefVector, Allocator, Entry, StringId and Name.                   *)
(*                                                                         *)
(* Pointers are addresses (naturals), NULL is 0.  An Option<StringId> is   *)
(* its 32-bit representation: 0 is None, n > 0 is Some(StringId(n)).       *)
(* Every step of a thread is one action; steps of different threads        *)
(* interleave freely.  A release store is a step that comes after the      *)
(* writes that precede it in program order, an acquire load a step that    *)
(* sees them.                                                              *)
(***************************************************************************)
EXTENDS Integers, Sequences, FiniteSets, TLC

VARIABLES
    build_hasher,   \* Subsystem::build_hasher
    max_strings,    \* the capacity Subsystem::with_hasher was given
    allocator,      \* Allocator: current_pool_start, current_pool_end, pools
    entries,        \* the Entry records in the pools, by address
    head,           \* EntryHashTable::head
    pages,          \* StaticRefVector::pages
    len,            \* StaticRefVector::len
    mutex,          \* Subsystem::allocator's Mutex: holder (NoThread if free), poisoned
    th,             \* per thread: position in its call and the call's locals
    issued,         \* history: <<string, handle>> of every returned intern call
    ub,             \* an unreachable_unchecked() was executed
    calls,          \* history: the number of calls made so far
    names,          \* history: the Names Name::new has returned
    tracker,        \* Subsystem::tracker (feature track-strings)
    map,            \* a SlotMap<T, Idx>: slots, free_head, len
    debug_assertions, \* the build checks debug_assert!
    map_ret,        \* the last SlotMap call: op, key, value, ret; "panic" if it panicked
    given,          \* history: the keys create_key and insert have returned
    handed,         \* history: the keys of `given` no remove was called with since
    removed,        \* history: per key that remove took a value from, the later
                    \* removes from its slot
    pending,        \* history: the keys of create_key no insert_with_key succeeded with
    map_calls,      \* history: the number of SlotMap calls made so far
    murmur,         \* a Murmur3 hasher: seed; history: the slices written
    pool,           \* an Allocator on its own: allocator; history: allocated
    systems,        \* two Subsystems used by one thread: the strings stored, by handle
    views           \* the Text and Name values made on them: kind, id, number, system

\* the state of the string subsystem (crate string)
string_vars == <<build_hasher, max_strings, allocator, entries, head, pages, len,
          mutex, th, issued, ub, calls, names, tracker>>

\* the state of the slot map (crate core)
core_vars == <<map, debug_assertions, map_ret, given, handed, removed, pending, map_calls>>

\* the state of the hasher (crate util)
util_vars == <<murmur>>

\* the state of an Allocator used on its own (crate string)
pool_vars == <<pool>>

\* the state of the Text and Name views of two subsystems (crate string)
view_vars == <<systems, views>>

vars == <<string_vars, core_vars, util_vars, pool_vars, view_vars>>

----------------------------------------------------------------------------
(* Bounds of the model. *)

\* Calls of create_string_id and string in one behaviour, over all threads.
MaxCalls == 3
\* Longest input string, in bytes.
MaxLen == 3
\* Largest max_strings a subsystem is constructed with.
MaxStrings == 3
\* PAGE_SIZE in units of align_of::<Entry>() (the source has 8192 units).
PageUnits == 2
\* Slots per page of the StaticRefVector (the source has 8192).
ELEMENTS_PER_PAGE == 2
\* Bucket heads of the EntryHashTable (the source has 65536).
NUM_BUCKETS == 2
\* Bits of the integer inside a StringId (the source has 32).
IdBits == 2
\* Bits of the number of a Name (the source has 32).
NumberBits == 6
\* Calls of Name::new in one behaviour.
MaxNameCalls == 2
\* Intern calls in one behaviour of a subsystem whose handle values run out.
MaxPushCalls == 5
\* PAGE_SIZE of an Allocator used on its own, in units of align_of::<Entry>().
PoolPageUnits == 5
\* Calls of Allocator::allocate in one behaviour of an Allocator on its own.
MaxAllocations == 3
\* Text and Name values made in one behaviour of two subsystems.
MaxViews == 3
\* Longest run of digits at the end of a string given to Name::new.
MaxDigits == 2

(* Program constants. *)

\* mem::size_of::<AtomicPtr<Entry>>() and mem::align_of::<Entry>()
PTR_SIZE == 8
\* the bytes of Option<StringId> and u16 in front of Entry::data
ID_LEN_SIZE == 6

ENTRY_ALIGN == PTR_SIZE
DATA_OFFSET == ID_LEN_SIZE + PTR_SIZE
PAGE_SIZE == PageUnits * ENTRY_ALIGN
MAX_STRING_LENGTH == PAGE_SIZE - DATA_OFFSET

NULL == 0
None == 0
NoThread == "none"
NoKey == <<>>
Threads == {"t1", "t2"}

----------------------------------------------------------------------------
(* Strings: valid UTF-8 byte sequences over 'a' and the two bytes of U+00E9. *)

Bytes == {97, 195, 169}

IsContinuationByte(b) == b >= 128 /\ b < 192
IsLeadByte2(b) == b >= 192 /\ b < 224

RECURSIVE ValidUtf8From(_, _)
ValidUtf8From(s, i) ==
    IF i > Len(s) THEN TRUE
    ELSE IF s[i] < 128 THEN ValidUtf8From(s, i + 1)
    ELSE IF IsLeadByte2(s[i])
        THEN i + 1 <= Len(s) /\ IsContinuationByte(s[i + 1]) /\ ValidUtf8From(s, i + 2)
    ELSE FALSE

Strings ==
    { s \in UNION { [1..n -> Bytes] : n \in 0..MaxLen } : ValidUtf8From(s, 1) }

\* str::is_char_boundary
IsCharBoundary(s, index) ==
    \/ index = 0
    \/ index = Len(s)
    \/ index < Len(s) /\ ~IsContinuationByte(s[index + 1])

----------------------------------------------------------------------------
(* Hashing. *)

Hashers == {"ByteSum", "Constant"}

RECURSIVE ByteSum(_)
ByteSum(s) == IF s = <<>> THEN 0 ELSE (s[1] + ByteSum(Tail(s))) % (2 ^ 16)

\* hasher.finish() after Hash::hash_slice(string.as_bytes(), &mut hasher)
Hash(hasher, s) == IF hasher = "ByteSum" THEN ByteSum(s) ELSE 0

\* `hash as u16`, the index into head
ShortHash(hash) == hash % NUM_BUCKETS

----------------------------------------------------------------------------
(* Entry *)

\* an Entry in a page System.alloc_zeroed returned; made_for is history: the
\* string of the call that allocated the entry
ZeroedEntry == [next |-> NULL, id |-> None, len |-> 0, data |-> <<>>, made_for |-> <<>>]

as_str(e) == SubSeq(e.data, 1, e.len)

\* Entry::len
entry_len(e) == e.len

entry_is_empty_inverted(e) == entry_len(e) # 0

\* Entry::is_empty
entry_is_empty(e) == entry_len(e) = 0

\* The entries Entry::iter yields from `first` in the current state.
RECURSIVE Chain(_, _)
Chain(first, fuel) ==
    IF first = NULL \/ fuel = 0 THEN <<>>
    ELSE <<first>> \o Chain(entries[first].next, fuel - 1)

ChainOf(first) == Chain(first, Cardinality(DOMAIN entries))

Reachable == UNION { { ChainOf(head[b])[i] : i \in 1..Len(ChainOf(head[b])) }
                     : b \in DOMAIN head }

----------------------------------------------------------------------------
(* StringId *)

from_raw_parts_unshifted(id) == id % (2 ^ IdBits)

\* the integer inside StringId::from_raw_parts(id), 0 where NonZeroU32::new fails
from_raw_parts(id) == (id + 1) % (2 ^ IdBits)

\* StringId::get
get_index_unshifted(stored) == stored

get_index(stored) == stored - 1

----------------------------------------------------------------------------
(* StaticRefVector *)

needed_pages_rounded_down(capacity) == capacity \div ELEMENTS_PER_PAGE

needed_pages(capacity) == (capacity + ELEMENTS_PER_PAGE - 1) \div ELEMENTS_PER_PAGE

page_index(index) == index \div ELEMENTS_PER_PAGE

\* StaticRefVector::num_pages
num_pages == IF len = 0 THEN 0 ELSE page_index(len) + 1

element_index_zero(index) == 0

element_index(index) == index % ELEMENTS_PER_PAGE

NoPage == [present |-> FALSE, slot |-> [i \in 0..(ELEMENTS_PER_PAGE - 1) |-> NULL]]

ZeroedPage == [present |-> TRUE, slot |-> [i \in 0..(ELEMENTS_PER_PAGE - 1) |-> NULL]]

page_always_created(index) == ZeroedPage.slot

\* the slots of the page page_or_create returns for index
page_or_create(index) ==
    IF pages[page_index(index)].present THEN pages[page_index(index)].slot
    ELSE ZeroedPage.slot

\* get_unchecked reaches unreachable_unchecked() for this id
GetUncheckedUndefined(id) ==
    \/ page_index(get_index(id)) \notin DOMAIN pages
    \/ ~pages[page_index(get_index(id))].present
    \/ pages[page_index(get_index(id))].slot[element_index(get_index(id))] = NULL

get_unchecked(id) ==
    pages[page_index(get_index(id))].slot[element_index(get_index(id))]

----------------------------------------------------------------------------
(* Threads *)

\* memory, chunks, allocated: what find_or_insert returns besides the id
\* a thread outside of any call; present is history: an entry made for the string
\* of the call was reachable when the call began
\* is_name: the call is a Name::new, name its argument and number the number it
\* split off
Idle == [pc |-> "idle", s |-> <<>>, cur |-> NULL, entry |-> NULL, id |-> None,
         res |-> <<>>, present |-> FALSE, is_name |-> FALSE, name |-> <<>>,
         number |-> None, memory |-> 0, chunks |-> 0, allocated |-> FALSE]

Holds(t) == mutex.holder = t

\* EntryHashTable::new: the memory of the bucket table
table_memory == PTR_SIZE * NUM_BUCKETS

\* StaticRefVector::new: the memory of the page table
map_memory(capacity) == PTR_SIZE * needed_pages(capacity)

\* Tracker::new
TrackerNew(memory, allocations) ==
    [used_memory |-> memory, used_chunks |-> allocations,
     string_len |-> 0, strings_allocated |-> 0]

\* Tracker::average_length
average_length ==
    IF tracker.strings_allocated = 0 THEN 0
    ELSE tracker.string_len \div tracker.strings_allocated

\* SlotMap::new in a build with or without debug assertions
SlotMapNew(debug) ==
    /\ map = [slots |-> <<>>, free_head |-> 0, len |-> 0]
    /\ debug_assertions = debug
    /\ map_ret = [op |-> "new", key |-> NoKey, value |-> None,
                  ret |-> [tag |-> "new", x |-> 0]]
    /\ given = {}
    /\ handed = {}
    /\ removed = {}
    /\ pending = {}
    /\ map_calls = 0

\* Murmur3::default
Murmur3Default == [seed |-> <<0, 0>>, written |-> <<>>]

\* Allocator::new
allocator_new == [current_pool_start |-> NULL, current_pool_end |-> NULL, pools |-> <<>>]

\* the Subsystems of the views
SystemIds == {1, 2}

\* two Subsystems nothing was interned in, and no view
ViewsNew == systems = [system \in SystemIds |-> <<>>] /\ views = <<>>

\* an Allocator nothing was allocated from
PoolNew == pool = [allocator |-> allocator_new, allocated |-> <<>>]

\* Subsystem::with_hasher
with_hasher(capacity, hasher) ==
    /\ build_hasher = hasher
    /\ max_strings = capacity
    /\ allocator = [current_pool_start |-> NULL, current_pool_end |-> NULL, pools |-> <<>>]
    /\ entries = <<>>
    /\ head = [b \in 0..(NUM_BUCKETS - 1) |-> NULL]
    /\ pages = [p \in 0..(needed_pages(max_strings) - 1) |-> NoPage]
    /\ len = 0
    /\ mutex = [holder |-> NoThread, poisoned |-> FALSE]
    /\ th = [t \in Threads |-> Idle]
    /\ issued = {}
    /\ ub = FALSE
    /\ calls = 0
    /\ names = {}
    /\ tracker = TrackerNew(table_memory + map_memory(max_strings), 1 + 1)

\* a subsystem of any capacity and hasher; no slot map call and no write to the
\* hasher is made
Init ==
    /\ \E capacity \in 0..MaxStrings, hasher \in Hashers : with_hasher(capacity, hasher)
    /\ SlotMapNew(FALSE)
    /\ murmur = Murmur3Default
    /\ PoolNew
    /\ ViewsNew

\* where a probe that found nothing continues: the lock, or the insertion
AfterMiss(t) == IF Holds(t) THEN "allocate" ELSE "lock"

\* the bucket head the probe of `string` starts from
Bucket(string) == ShortHash(Hash(build_hasher, string))

\* Subsystem::create_string_id is called with `string`: the hash, and the load
\* of the bucket head in the first EntryHashTable::find
BeginInternWithin(t, string, max_calls) ==
    /\ th[t].pc = "idle"
    /\ calls < max_calls
    /\ calls' = calls + 1
    /\ th' = [th EXCEPT ![t] =
                 [Idle EXCEPT !.s = string,
                              !.present = \E a \in Reachable : entries[a].made_for = string,
                              !.cur = head[Bucket(string)],
                              !.pc = IF head[Bucket(string)] = NULL THEN "lock"
                                     ELSE "find_entry"]]
    /\ UNCHANGED <<build_hasher, max_strings, allocator, entries, head, pages, len,
                   mutex, issued, ub, names, tracker, core_vars, util_vars, pool_vars, view_vars>>

\* a call of Subsystem::create_string_id, one of at most MaxCalls
BeginIntern(t, string) == BeginInternWithin(t, string, MaxCalls)

\* the second EntryHashTable::find, under the mutex: the load of the bucket head
FindHead(t) ==
    /\ th[t].pc = "find_head"
    /\ th' = [th EXCEPT ![t].cur = head[Bucket(th[t].s)],
                        ![t].pc = IF head[Bucket(th[t].s)] = NULL THEN AfterMiss(t)
                                  ELSE "find_entry"]
    /\ UNCHANGED <<build_hasher, max_strings, allocator, entries, head, pages, len,
                   mutex, issued, ub, calls, names, tracker, core_vars, util_vars, pool_vars, view_vars>>

MatchesLength(e, name) == e.len = Len(name)

\* entry.as_str() == name
Matches(e, name) == as_str(e) = name

\* EntryHashTable::find: one turn of the loop over Entry::iter
FindEntry(t) ==
    /\ th[t].pc = "find_entry"
    /\ LET e == entries[th[t].cur]
       IN IF Matches(e, th[t].s)
          THEN /\ th' = [th EXCEPT ![t].id = e.id, ![t].pc = "return"]
               /\ ub' = (ub \/ e.id = None)
          ELSE /\ th' = [th EXCEPT ![t].cur = e.next,
                                   ![t].pc = IF e.next = NULL THEN AfterMiss(t)
                                             ELSE "find_entry"]
               /\ ub' = ub
    /\ UNCHANGED <<build_hasher, max_strings, allocator, entries, head, pages, len,
                   mutex, issued, calls, names, tracker, core_vars, util_vars, pool_vars, view_vars>>

LockIgnoresPoison(t) ==
    /\ th[t].pc = "lock"
    /\ mutex.holder = NoThread
    /\ th' = [th EXCEPT ![t].pc = "find_head"]
    /\ mutex' = [mutex EXCEPT !.holder = t]
    /\ UNCHANGED <<build_hasher, max_strings, allocator, entries, head, pages, len,
                   issued, ub, calls, names, tracker, core_vars, util_vars, pool_vars, view_vars>>

\* allocator.lock().unwrap()
Lock(t) ==
    /\ th[t].pc = "lock"
    /\ mutex.holder = NoThread
    /\ IF mutex.poisoned
       THEN /\ th' = [th EXCEPT ![t].pc = "panicked"]
            /\ UNCHANGED mutex
       ELSE /\ th' = [th EXCEPT ![t].pc = "find_head"]
            /\ mutex' = [mutex EXCEPT !.holder = t]
    /\ UNCHANGED <<build_hasher, max_strings, allocator, entries, head, pages, len,
                   issued, ub, calls, names, tracker, core_vars, util_vars, pool_vars, view_vars>>

\* the unwinding of a panic drops the MutexGuard the thread holds: the mutex is
\* released and poisoned
Panic(t) ==
    /\ th' = [th EXCEPT ![t].pc = "panicked"]
    /\ mutex' = IF Holds(t) THEN [holder |-> NoThread, poisoned |-> TRUE] ELSE mutex

SlicedOneShort(string) ==
    IF Len(string) > MAX_STRING_LENGTH THEN SubSeq(string, 1, MAX_STRING_LENGTH - 1)
    ELSE string

\* the &str find_or_insert hands to Allocator::allocate
Sliced(string) ==
    IF Len(string) > MAX_STRING_LENGTH THEN SubSeq(string, 1, MAX_STRING_LENGTH)
    ELSE string

\* &string[0..MAX_STRING_LENGTH] panics unless MAX_STRING_LENGTH is a char boundary
SlicePanics(string) ==
    Len(string) > MAX_STRING_LENGTH /\ ~IsCharBoundary(string, MAX_STRING_LENGTH)

\* Allocator::capacity of the allocator a
capacity_of(a) == a.current_pool_end - a.current_pool_start

capacity == capacity_of(allocator)

\* a bump pointer that is not rounded up
aligned_offset_none(addr) == 0

\* Allocator::aligned_offset of the address addr
aligned_offset(addr) ==
    IF addr % ENTRY_ALIGN = 0 THEN 0 ELSE ENTRY_ALIGN - (addr % ENTRY_ALIGN)

\* Allocator::allocate_page with pages of page_size bytes
allocate_page(a, page_size) ==
    [current_pool_start |-> (Len(a.pools) + 1) * page_size,
     current_pool_end |-> (Len(a.pools) + 1) * page_size + page_size,
     pools |-> Append(a.pools, (Len(a.pools) + 1) * page_size)]

\* the address System.alloc_zeroed returns for the next pool
NextPool == allocate_page(allocator, PAGE_SIZE).current_pool_start

\* Allocator::allocate of a string of `length` bytes: the allocator afterwards,
\* the address of the entry, and the memory and chunks returned
allocate(a, length, page_size) ==
    LET fresh == capacity_of(a) < length + DATA_OFFSET
        cur == IF fresh THEN allocate_page(a, page_size) ELSE a
        bumped == cur.current_pool_start + length + DATA_OFFSET
    IN [allocator |-> [cur EXCEPT !.current_pool_start = bumped + aligned_offset(bumped)],
        entry |-> cur.current_pool_start,
        memory |-> IF fresh THEN page_size ELSE 0,
        chunks |-> IF fresh THEN 1 ELSE 0]

\* find_or_insert after the second probe missed: the slice of the string, then
\* Allocator::allocate up to the advance of current_pool_start
Allocate(t) ==
    /\ th[t].pc = "allocate"
    /\ IF SlicePanics(th[t].s)
       THEN /\ Panic(t)
            /\ UNCHANGED <<allocator, entries>>
       ELSE LET length == Len(Sliced(th[t].s))
                fresh == capacity < length + DATA_OFFSET
                start == IF fresh THEN NextPool ELSE allocator.current_pool_start
                bumped == start + length + DATA_OFFSET
            IN /\ allocator' =
                      [current_pool_start |-> bumped + aligned_offset(bumped),
                       current_pool_end |-> IF fresh THEN start + PAGE_SIZE
                                            ELSE allocator.current_pool_end,
                       pools |-> IF fresh THEN Append(allocator.pools, start)
                                 ELSE allocator.pools]
               /\ entries' = (start :> [ZeroedEntry EXCEPT !.made_for = th[t].s]) @@ entries
               /\ th' = [th EXCEPT ![t].entry = start, ![t].pc = "init_entry",
                                    ![t].memory = IF fresh THEN PAGE_SIZE ELSE 0,
                                    ![t].chunks = IF fresh THEN 1 ELSE 0]
               /\ UNCHANGED mutex
    /\ UNCHANGED <<build_hasher, max_strings, head, pages, len, issued, ub, calls, names, tracker, core_vars, util_vars, pool_vars, view_vars>>

\* Allocator::allocate: the writes of id, len and data
InitEntry(t) ==
    /\ th[t].pc = "init_entry"
    /\ entries' = [entries EXCEPT ![th[t].entry] =
                      [@ EXCEPT !.id = None,
                                !.len = Len(Sliced(th[t].s)),
                                !.data = Sliced(th[t].s)]]
    /\ th' = [th EXCEPT ![t].pc = "push_slot"]
    /\ UNCHANGED <<build_hasher, max_strings, allocator, head, pages, len, mutex,
                   issued, ub, calls, names, tracker, core_vars, util_vars, pool_vars, view_vars>>

PushSlotUnwritten(t) ==
    /\ th[t].pc = "push_slot"
    /\ th' = [th EXCEPT ![t].pc = "push_len"]
    /\ UNCHANGED <<build_hasher, max_strings, allocator, entries, head, pages, len,
                   mutex, issued, ub, calls, names, tracker, core_vars, util_vars, pool_vars, view_vars>>

\* StaticRefVector::push: page_or_create and the write of the element
PushSlot(t) ==
    /\ th[t].pc = "push_slot"
    /\ IF page_index(len) \notin DOMAIN pages
       THEN /\ Panic(t)
            /\ UNCHANGED pages
       ELSE /\ pages' = [pages EXCEPT ![page_index(len)] =
                   [present |-> TRUE,
                    slot |-> [page_or_create(len)
                                 EXCEPT ![element_index(len)] = th[t].entry]]]
            /\ th' = [th EXCEPT ![t].pc = "push_len",
                         ![t].memory = IF pages[page_index(len)].present THEN @
                                       ELSE @ + PTR_SIZE * ELEMENTS_PER_PAGE,
                         ![t].chunks = IF pages[page_index(len)].present THEN @
                                       ELSE @ + 1]
            /\ UNCHANGED mutex
    /\ UNCHANGED <<build_hasher, max_strings, allocator, entries, head, len, issued, ub, calls,
                   names, tracker, core_vars, util_vars, pool_vars, view_vars>>

\* a push whose handle value starts again at 1 when id + 1 does not fit
PushLenWrapping(t) ==
    /\ th[t].pc = "push_len"
    /\ len' = len + 1
    /\ th' = [th EXCEPT ![t].id = IF from_raw_parts(len % (2 ^ IdBits)) = 0 THEN 1
                                  ELSE from_raw_parts(len % (2 ^ IdBits)),
                        ![t].pc = "set_id"]
    /\ UNCHANGED <<build_hasher, max_strings, allocator, entries, head, pages, issued, ub, calls,
                   mutex, names, tracker, core_vars, util_vars, pool_vars, view_vars>>

\* StaticRefVector::push: the store of len and StringId::from_raw_parts
PushLen(t) ==
    /\ th[t].pc = "push_len"
    /\ len' = len + 1
    /\ IF from_raw_parts(len % (2 ^ IdBits)) = 0
       THEN Panic(t)
       ELSE /\ th' = [th EXCEPT ![t].id = from_raw_parts(len % (2 ^ IdBits)),
                                ![t].pc = "set_id"]
            /\ UNCHANGED mutex
    /\ UNCHANGED <<build_hasher, max_strings, allocator, entries, head, pages, issued, ub, calls,
                   names, tracker, core_vars, util_vars, pool_vars, view_vars>>

SetIdLost(t) ==
    /\ th[t].pc = "set_id"
    /\ th' = [th EXCEPT ![t].pc = "publish"]
    /\ UNCHANGED <<build_hasher, max_strings, allocator, entries, head, pages, len,
                   mutex, issued, ub, calls, names, tracker, core_vars, util_vars, pool_vars, view_vars>>

\* (*entry).id = Some(id)
SetId(t) ==
    /\ th[t].pc = "set_id"
    /\ entries' = [entries EXCEPT ![th[t].entry].id = th[t].id]
    /\ th' = [th EXCEPT ![t].pc = "publish"]
    /\ UNCHANGED <<build_hasher, max_strings, allocator, head, pages, len, mutex,
                   issued, ub, calls, names, tracker, core_vars, util_vars, pool_vars, view_vars>>

Last_is_first(first) == first

\* the last entry of the chain that starts at first
Last(first) == ChainOf(first)[Len(ChainOf(first))]

PublishAtHead(t) ==
    /\ th[t].pc = "publish"
    /\ LET b == Bucket(th[t].s)
       IN /\ head' = [head EXCEPT ![b] = th[t].entry]
          /\ UNCHANGED entries
    /\ th' = [th EXCEPT ![t].id = entries[th[t].entry].id, ![t].pc = "return",
                         ![t].allocated = TRUE]
    /\ ub' = (ub \/ entries[th[t].entry].id = None)
    /\ UNCHANGED <<build_hasher, max_strings, allocator, pages, len, mutex, issued, calls, names, tracker, core_vars, util_vars, pool_vars, view_vars>>

\* the store of the entry into the empty bucket head or into the tail's next
Publish(t) ==
    /\ th[t].pc = "publish"
    /\ LET b == Bucket(th[t].s)
       IN IF head[b] = NULL
          THEN /\ head' = [head EXCEPT ![b] = th[t].entry]
               /\ UNCHANGED entries
          ELSE /\ entries' = [entries EXCEPT ![Last(head[b])].next = th[t].entry]
               /\ UNCHANGED head
    /\ th' = [th EXCEPT ![t].id = entries[th[t].entry].id, ![t].pc = "return",
                         ![t].allocated = TRUE]
    /\ ub' = (ub \/ entries[th[t].entry].id = None)
    /\ UNCHANGED <<build_hasher, max_strings, allocator, pages, len, mutex, issued, calls, names, tracker, core_vars, util_vars, pool_vars, view_vars>>

\* Tracker::add_len
AddLen(string_len, length) == string_len + length

\* find_or_insert returns (the MutexGuard, if any, is dropped), create_string_id
\* adds what it returned to the tracker and returns the id; Name::new makes the
\* Name of it
Return(t) ==
    /\ th[t].pc = "return"
    /\ mutex' = IF Holds(t) THEN [mutex EXCEPT !.holder = NoThread] ELSE mutex
    /\ issued' = issued \cup {<<th[t].s, th[t].id>>}
    /\ names' = IF th[t].is_name
                THEN names \cup {[name |-> th[t].name, prefix |-> th[t].s,
                                  id |-> th[t].id, number |-> th[t].number]}
                ELSE names
    /\ tracker' =
           [used_memory |-> tracker.used_memory + th[t].memory,
            used_chunks |-> tracker.used_chunks + th[t].chunks,
            strings_allocated |-> IF th[t].allocated THEN tracker.strings_allocated + 1
                                  ELSE tracker.strings_allocated,
            string_len |-> IF th[t].allocated THEN AddLen(tracker.string_len, Len(th[t].s))
                           ELSE tracker.string_len]
    /\ th' = [th EXCEPT ![t] = Idle]
    /\ UNCHANGED <<build_hasher, max_strings, allocator, entries, head, pages, len, ub, calls,
                   core_vars, util_vars, pool_vars, view_vars>>

\* the handles intern calls have returned so far
IssuedHandles == { i[2] : i \in issued }

\* Subsystem::string is called with a handle an intern call returned:
\* StaticRefVector::get_unchecked
BeginResolve(t, id) ==
    /\ th[t].pc = "idle"
    /\ id \in IssuedHandles
    /\ calls < MaxCalls
    /\ calls' = calls + 1
    /\ IF GetUncheckedUndefined(id)
       THEN /\ ub' = TRUE
            /\ \E p \in DOMAIN entries \cup {NULL} :
                   th' = [th EXCEPT ![t] =
                            [Idle EXCEPT !.id = id, !.cur = p,
                                         !.pc = IF p = NULL THEN "idle" ELSE "resolve_str"]]
       ELSE /\ ub' = ub
            /\ th' = [th EXCEPT ![t] =
                         [Idle EXCEPT !.id = id, !.cur = get_unchecked(id),
                                      !.pc = "resolve_str"]]
    /\ UNCHANGED <<build_hasher, max_strings, allocator, entries, head, pages, len,
                   mutex, issued, names, tracker, core_vars, util_vars, pool_vars, view_vars>>

\* Subsystem::string: Entry::as_str of the entry the slot points to
ResolveStr(t) ==
    /\ th[t].pc = "resolve_str"
    /\ th' = [th EXCEPT ![t].res = as_str(entries[th[t].cur]), ![t].pc = "resolved"]
    /\ UNCHANGED <<build_hasher, max_strings, allocator, entries, head, pages, len,
                   mutex, issued, ub, calls, names, tracker, core_vars, util_vars, pool_vars, view_vars>>

\* the caller is done with the &str
EndResolve(t) ==
    /\ th[t].pc = "resolved"
    /\ th' = [th EXCEPT ![t] = Idle]
    /\ UNCHANGED <<build_hasher, max_strings, allocator, entries, head, pages, len,
                   mutex, issued, ub, calls, names, tracker, core_vars, util_vars, pool_vars, view_vars>>

\* Subsystem::len is called with a handle an intern call returned:
\* StaticRefVector::get_unchecked
BeginLen(t, id) ==
    /\ th[t].pc = "idle"
    /\ id \in IssuedHandles
    /\ calls < MaxCalls
    /\ calls' = calls + 1
    /\ IF GetUncheckedUndefined(id)
       THEN /\ ub' = TRUE
            /\ \E p \in DOMAIN entries \cup {NULL} :
                   th' = [th EXCEPT ![t] =
                            [Idle EXCEPT !.id = id, !.cur = p,
                                         !.pc = IF p = NULL THEN "idle" ELSE "len_entry"]]
       ELSE /\ ub' = ub
            /\ th' = [th EXCEPT ![t] =
                         [Idle EXCEPT !.id = id, !.cur = get_unchecked(id),
                                      !.pc = "len_entry"]]
    /\ UNCHANGED <<build_hasher, max_strings, allocator, entries, head, pages, len,
                   mutex, issued, names, tracker, core_vars, util_vars, pool_vars, view_vars>>

\* Subsystem::len: Entry::len of the entry the slot points to, then the caller is
\* done with the number
LenEntry(t) ==
    /\ th[t].pc = "len_entry"
    /\ th' = [th EXCEPT ![t].res = entry_len(entries[th[t].cur]), ![t].pc = "len_done"]
    /\ UNCHANGED <<build_hasher, max_strings, allocator, entries, head, pages, len,
                   mutex, issued, ub, calls, names, tracker, core_vars, util_vars, pool_vars, view_vars>>

\* Subsystem::is_empty is called with a handle an intern call returned:
\* StaticRefVector::get_unchecked
BeginIsEmpty(t, id) ==
    /\ th[t].pc = "idle"
    /\ id \in IssuedHandles
    /\ calls < MaxCalls
    /\ calls' = calls + 1
    /\ IF GetUncheckedUndefined(id)
       THEN /\ ub' = TRUE
            /\ \E p \in DOMAIN entries \cup {NULL} :
                   th' = [th EXCEPT ![t] =
                            [Idle EXCEPT !.id = id, !.cur = p,
                                         !.pc = IF p = NULL THEN "idle" ELSE "is_empty_entry"]]
       ELSE /\ ub' = ub
            /\ th' = [th EXCEPT ![t] =
                         [Idle EXCEPT !.id = id, !.cur = get_unchecked(id),
                                      !.pc = "is_empty_entry"]]
    /\ UNCHANGED <<build_hasher, max_strings, allocator, entries, head, pages, len,
                   mutex, issued, names, tracker, core_vars, util_vars, pool_vars, view_vars>>

\* Subsystem::is_empty: Entry::is_empty of the entry the slot points to
IsEmptyEntry(t) ==
    /\ th[t].pc = "is_empty_entry"
    /\ th' = [th EXCEPT ![t].res = entry_is_empty(entries[th[t].cur]),
                        ![t].pc = "is_empty_done"]
    /\ UNCHANGED <<build_hasher, max_strings, allocator, entries, head, pages, len,
                   mutex, issued, ub, calls, names, tracker, core_vars, util_vars, pool_vars, view_vars>>

\* the StringIds StaticRefVector::get is called with
GetIds == 1..(MaxStrings + 1)

\* StaticRefVector::get is called with id: the acquire load of len and the
\* comparison
GetLen(t, id) ==
    /\ th[t].pc = "idle"
    /\ calls < MaxCalls
    /\ calls' = calls + 1
    /\ th' = [th EXCEPT ![t] =
                 IF get_index(id) < len
                 THEN [Idle EXCEPT !.id = id, !.pc = "get_slot"]
                 ELSE [Idle EXCEPT !.id = id, !.res = "None", !.pc = "get_done"]]
    /\ UNCHANGED <<build_hasher, max_strings, allocator, entries, head, pages, len,
                   mutex, issued, ub, names, tracker, core_vars, util_vars, pool_vars, view_vars>>

\* StaticRefVector::get: Some(self.get_unchecked(id))
GetSlot(t) ==
    /\ th[t].pc = "get_slot"
    /\ IF GetUncheckedUndefined(th[t].id)
       THEN /\ ub' = TRUE
            /\ \E p \in DOMAIN entries \cup {NULL} :
                   th' = [th EXCEPT ![t].cur = p, ![t].res = "Some", ![t].pc = "get_done"]
       ELSE /\ ub' = ub
            /\ th' = [th EXCEPT ![t].cur = get_unchecked(th[t].id), ![t].res = "Some",
                                ![t].pc = "get_done"]
    /\ UNCHANGED <<build_hasher, max_strings, allocator, entries, head, pages, len,
                   mutex, issued, calls, names, tracker, core_vars, util_vars, pool_vars, view_vars>>

\* the caller is done with the usize, the bool or the Option
EndQuery(t) ==
    /\ th[t].pc \in {"len_done", "is_empty_done", "get_done"}
    /\ th' = [th EXCEPT ![t] = Idle]
    /\ UNCHANGED <<build_hasher, max_strings, allocator, entries, head, pages, len,
                   mutex, issued, ub, calls, names, tracker, core_vars, util_vars, pool_vars, view_vars>>

Next ==
    \E t \in Threads :
        \/ \E string \in Strings : BeginIntern(t, string)
        \/ FindHead(t)
        \/ FindEntry(t)
        \/ Lock(t)
        \/ Allocate(t)
        \/ InitEntry(t)
        \/ PushSlot(t)
        \/ PushLen(t)
        \/ SetId(t)
        \/ Publish(t)
        \/ Return(t)
        \/ \E id \in IssuedHandles : BeginResolve(t, id)
        \/ ResolveStr(t)
        \/ EndResolve(t)
        \/ \E id \in IssuedHandles : BeginLen(t, id)
        \/ LenEntry(t)
        \/ \E id \in IssuedHandles : BeginIsEmpty(t, id)
        \/ IsEmptyEntry(t)
        \/ \E id \in GetIds : GetLen(t, id)
        \/ GetSlot(t)
        \/ EndQuery(t)

Spec == Init /\ [][Next]_vars

\* a step of an intern call thread t is in
InternStep(t) ==
    \/ FindHead(t)
    \/ FindEntry(t)
    \/ Lock(t)
    \/ Allocate(t)
    \/ InitEntry(t)
    \/ PushSlot(t)
    \/ PushLen(t)
    \/ SetId(t)
    \/ Publish(t)
    \/ Return(t)

\* the threads make intern calls only
InternNext ==
    \E t \in Threads :
        \/ \E string \in Strings : BeginIntern(t, string)
        \/ FindHead(t)
        \/ FindEntry(t)
        \/ Lock(t)
        \/ Allocate(t)
        \/ InitEntry(t)
        \/ PushSlot(t)
        \/ PushLen(t)
        \/ SetId(t)
        \/ Publish(t)
        \/ Return(t)

\* every thread that can take a step of its call eventually takes one: the
\* scheduler runs every runnable thread, and a thread blocked in lock() is woken
\* when the mutex is released
FairSpec == Init /\ [][InternNext]_vars /\ \A t \in Threads : WF_vars(InternStep(t))

----------------------------------------------------------------------------
(* Name *)

\* u8::is_ascii_digit
is_ascii_digit(byte) == byte >= 48 /\ byte <= 57

RECURSIVE any_digit_loop(_, _, _)
any_digit_loop(string, index, last) ==
    IF index = 0 \/ ~is_ascii_digit(string[index]) THEN last
    ELSE any_digit_loop(string, index - 1, index)

last_valid_any_digit(string) == any_digit_loop(string, Len(string), None)

\* the loop of Name::split_string over string.bytes().enumerate().rev(), from the
\* byte at index (counted from 1) down
RECURSIVE split_loop(_, _, _)
split_loop(string, index, last) ==
    IF index = 0 \/ ~is_ascii_digit(string[index]) THEN last
    ELSE split_loop(string, index - 1, IF string[index] # 48 THEN index ELSE last)

\* last_valid after the loop of Name::split_string: None, or the index (counted
\* from 1) of the byte the number starts at
last_valid(string) == split_loop(string, Len(string), None)

\* u32::MAX, for a u32 of NumberBits bits
U32_MAX == (2 ^ NumberBits) - 1

\* Err of u32::from_str
ParseErr == -1

\* u32::from_str of a string of ASCII digits: checked multiplication and addition
RECURSIVE from_str_loop(_, _, _)
from_str_loop(number, index, result) ==
    IF index > Len(number) THEN result
    ELSE IF result * 10 + (number[index] - 48) > U32_MAX THEN ParseErr
    ELSE from_str_loop(number, index + 1, result * 10 + (number[index] - 48))

from_str(number) == IF number = <<>> THEN ParseErr ELSE from_str_loop(number, 1, 0)

\* Name::split_string: <<string part, number>>, the number None when there is none
split_string(string) ==
    IF last_valid(string) = None THEN <<string, None>>
    ELSE LET prefix == SubSeq(string, 1, last_valid(string) - 1)
             number == SubSeq(string, last_valid(string), Len(string))
         IN IF from_str(number) = ParseErr THEN <<string, None>>
            ELSE <<prefix, from_str(number)>>

\* NonZeroU32::new(number).unwrap() in Name::split_string panics
SplitPanics(string) ==
    /\ last_valid(string) # None
    /\ from_str(SubSeq(string, last_valid(string), Len(string))) = 0

\* u32::to_string
RECURSIVE to_decimal(_)
to_decimal(number) ==
    IF number < 10 THEN <<48 + number>>
    ELSE Append(to_decimal(number \div 10), 48 + (number % 10))

\* Name::string_part
string_part(n) == as_str(entries[get_unchecked(n.id)])

to_string_without_number(n) == string_part(n)

\* Display for Name, as ToString::to_string uses it
to_string(n) ==
    IF n.number # None THEN string_part(n) \o to_decimal(n.number)
    ELSE string_part(n)

name_len_without_number(n) == entry_len(entries[get_unchecked(n.id)])

\* Name::len
name_len(n) ==
    IF n.number # None
    THEN entry_len(entries[get_unchecked(n.id)]) + Len(to_decimal(n.number))
    ELSE entry_len(entries[get_unchecked(n.id)])

\* Name::is_empty
name_is_empty(n) ==
    IF n.number # None THEN FALSE ELSE entry_is_empty(entries[get_unchecked(n.id)])

\* PartialEq<str> for Name
name_eq_str(n, other) ==
    IF n.number # None THEN <<string_part(n), n.number>> = split_string(other)
    ELSE string_part(n) = other

\* PartialEq for Name, of two Name values at different places: the pointers
\* compared are the addresses of the two `system` fields, which differ, so the
\* string parts and the numbers are compared
name_eq(n, m) == <<string_part(n), n.number>> = <<string_part(m), m.number>>

\* the strings given to Name::new: a string part over 'a' and '1' that is empty
\* or ends in 'a', followed by a run of the digits '0', '1' and '9', and the two
\* strings "object-0042" and "object-0"
NamePrefixBytes == {97, 49}
NameDigits == {48, 49, 57}

NamePrefixes ==
    { q \in UNION { [1..n -> NamePrefixBytes] : n \in 0..MaxLen } :
          q = <<>> \/ q[Len(q)] = 97 }

NameDigitRuns == UNION { [1..n -> NameDigits] : n \in 0..MaxDigits }

Object0042 == <<111, 98, 106, 101, 99, 116, 45, 48, 48, 52, 50>>
Object0 == <<111, 98, 106, 101, 99, 116, 45, 48>>

NameStrings ==
    { q \o d : q \in NamePrefixes, d \in NameDigitRuns } \cup {Object0042, Object0}

\* Name::new is called with `string`: split_string, then create_string_id of the
\* string part up to the load of the bucket head in the first EntryHashTable::find
NameNew(t, string) ==
    /\ th[t].pc = "idle"
    /\ calls < MaxNameCalls
    /\ calls' = calls + 1
    /\ IF SplitPanics(string)
       THEN th' = [th EXCEPT ![t] =
                      [Idle EXCEPT !.is_name = TRUE, !.name = string, !.pc = "panicked"]]
       ELSE LET prefix == split_string(string)[1]
            IN th' = [th EXCEPT ![t] =
                  [Idle EXCEPT !.is_name = TRUE,
                               !.name = string,
                               !.number = split_string(string)[2],
                               !.s = prefix,
                               !.present = \E a \in Reachable : entries[a].made_for = prefix,
                               !.cur = head[Bucket(prefix)],
                               !.pc = IF head[Bucket(prefix)] = NULL THEN "lock"
                                      ELSE "find_entry"]]
    /\ UNCHANGED <<build_hasher, max_strings, allocator, entries, head, pages, len,
                   mutex, issued, ub, names, tracker, core_vars, util_vars, pool_vars, view_vars>>

\* the thread that makes the Names
NameThread == "t1"

NameNext ==
    \/ \E string \in NameStrings : NameNew(NameThread, string)
    \/ FindHead(NameThread)
    \/ FindEntry(NameThread)
    \/ Lock(NameThread)
    \/ Allocate(NameThread)
    \/ InitEntry(NameThread)
    \/ PushSlot(NameThread)
    \/ PushLen(NameThread)
    \/ SetId(NameThread)
    \/ Publish(NameThread)
    \/ Return(NameThread)

NameSpec == Init /\ [][NameNext]_vars

----------------------------------------------------------------------------
(* Text and Name values of two subsystems, made by one thread: a call of     *)
(* create_string_id is one step.                                              *)

\* the strings the views are made of: "a", "a1" and "1"
ViewStrings == {<<97>>, <<97, 49>>, <<49>>}

\* EntryHashTable::find on the strings stored in a subsystem: the handle of the
\* first entry whose bytes equal `string`, or None
table_find(table, string) ==
    IF \E id \in DOMAIN table : table[id] = string
    THEN CHOOSE id \in DOMAIN table :
             /\ table[id] = string
             /\ \A other \in DOMAIN table : table[other] = string => id <= other
    ELSE None

\* Subsystem::create_string_id without other threads: the strings stored
\* afterwards and the handle returned
create_string_id(table, string) ==
    IF table_find(table, string) # None
    THEN [table |-> table, id |-> table_find(table, string)]
    ELSE [table |-> Append(table, Sliced(string)), id |-> from_raw_parts(Len(table))]

\* Text::new(string, system)
TextNew(system, string) ==
    /\ Len(views) < MaxViews
    /\ systems' = [systems EXCEPT
                      ![system] = create_string_id(systems[system], string).table]
    /\ views' = Append(views,
                       [kind |-> "text",
                        id |-> create_string_id(systems[system], string).id,
                        number |-> None,
                        system |-> system])
    /\ UNCHANGED <<string_vars, core_vars, util_vars, pool_vars>>

\* Name::new(string, system)
ViewNameNew(system, string) ==
    /\ Len(views) < MaxViews
    /\ ~SplitPanics(string)
    /\ systems' = [systems EXCEPT
                      ![system] = create_string_id(systems[system],
                                                   split_string(string)[1]).table]
    /\ views' = Append(views,
                       [kind |-> "name",
                        id |-> create_string_id(systems[system],
                                                split_string(string)[1]).id,
                        number |-> split_string(string)[2],
                        system |-> system])
    /\ UNCHANGED <<string_vars, core_vars, util_vars, pool_vars>>

\* Name::from(text), of the Text views[i]
NameFromText(i) ==
    /\ Len(views) < MaxViews
    /\ i \in DOMAIN views
    /\ views[i].kind = "text"
    /\ views' = Append(views, [views[i] EXCEPT !.kind = "name", !.number = None])
    /\ UNCHANGED <<string_vars, core_vars, util_vars, pool_vars, systems>>

\* Subsystem::string of the handle of the view v
view_as_str(v) == systems[v.system][v.id]

\* Hash for Text: what is written to the hasher
text_hash(v) == <<v.id>>

\* Hash for Name: what is written to the hasher
view_name_hash(v) == <<v.id, v.number>>

\* PartialEq for Text, of views[i] and views[j]: the pointers compared are the
\* addresses of the two `system` fields, equal only for one and the same value
text_eq(i, j) ==
    IF i = j THEN views[i].id = views[j].id
    ELSE view_as_str(views[i]) = view_as_str(views[j])

\* PartialEq for Name, of views[i] and views[j]
view_name_eq(i, j) ==
    IF i = j THEN views[i].id = views[j].id /\ views[i].number = views[j].number
    ELSE <<view_as_str(views[i]), views[i].number>>
             = <<view_as_str(views[j]), views[j].number>>

\* Display for Name, of the view v
view_to_string(v) ==
    IF v.number # None THEN view_as_str(v) \o to_decimal(v.number)
    ELSE view_as_str(v)

ViewInit ==
    /\ with_hasher(0, "Constant")
    /\ SlotMapNew(FALSE)
    /\ murmur = Murmur3Default
    /\ PoolNew
    /\ ViewsNew

ViewNext ==
    \/ \E system \in SystemIds, string \in ViewStrings : TextNew(system, string)
    \/ \E system \in SystemIds, string \in ViewStrings : ViewNameNew(system, string)
    \/ \E i \in 1..MaxViews : NameFromText(i)

ViewSpec == ViewInit /\ [][ViewNext]_vars

----------------------------------------------------------------------------
(* Subsystems large enough for the handle values to run out: max_strings is  *)
(* the largest handle value, or exceeds it.                                   *)

\* the strings create_string_id stores whole
WholeStrings == { s \in Strings : Len(s) <= MAX_STRING_LENGTH }

\* Subsystem::new with a capacity of at least 2^IdBits - 1 strings
LargeInit ==
    /\ \E strings \in {2 ^ IdBits - 1, 2 ^ IdBits + 1}, hasher \in Hashers :
           with_hasher(strings, hasher)
    /\ SlotMapNew(FALSE)
    /\ murmur = Murmur3Default
    /\ PoolNew
    /\ ViewsNew

\* the threads make at most MaxPushCalls intern calls
LargeNext ==
    \E t \in Threads :
        \/ \E string \in WholeStrings : BeginInternWithin(t, string, MaxPushCalls)
        \/ FindHead(t)
        \/ FindEntry(t)
        \/ Lock(t)
        \/ Allocate(t)
        \/ InitEntry(t)
        \/ PushSlot(t)
        \/ PushLen(t)
        \/ SetId(t)
        \/ Publish(t)
        \/ Return(t)

LargeSpec == LargeInit /\ [][LargeNext]_vars

----------------------------------------------------------------------------
(* An Allocator on its own, with pages that hold more than one entry.        *)

POOL_PAGE_SIZE == PoolPageUnits * ENTRY_ALIGN

\* Allocator::allocate is called with a string of `length` bytes
PoolAllocate(length) ==
    /\ Len(pool.allocated) < MaxAllocations
    /\ pool' = LET made == allocate(pool.allocator, length, POOL_PAGE_SIZE)
               IN [allocator |-> made.allocator,
                   allocated |-> Append(pool.allocated,
                                        [entry |-> made.entry, len |-> length,
                                         memory |-> made.memory])]
    /\ UNCHANGED <<string_vars, core_vars, util_vars, view_vars>>

PoolInit ==
    /\ with_hasher(0, "Constant")
    /\ SlotMapNew(FALSE)
    /\ murmur = Murmur3Default
    /\ PoolNew
    /\ ViewsNew

\* the callers pass at most MAX_STRING_LENGTH = PAGE_SIZE - DATA_OFFSET bytes
PoolNext == \E length \in 0..(POOL_PAGE_SIZE - DATA_OFFSET) : PoolAllocate(length)

PoolSpec == PoolInit /\ [][PoolNext]_vars

----------------------------------------------------------------------------
(* Murmur3 (crate util). A u32 is the pair <<high 16 bits, low 16 bits>>, the *)
(* u64 of finish the four 16-bit words from the highest to the lowest.        *)

\* the writes one run makes to a hasher
MaxWrites == 2

WORD == 2 ^ 16

Murmur3_C1 == <<52382, 11601>>
Murmur3_C2 == <<7047, 13715>>
Murmur3_M == <<0, 5>>
Murmur3_N == <<58964, 27492>>
Murmur3_R1 == 15
Murmur3_R2 == 13

\* the low 16 bits of the product of two 16-bit words
mul_low(a, b) == ((a % 256) * b + (((a \div 256) * b) % 256) * 256) % WORD

\* the high 16 bits of the product of two 16-bit words
mul_high(a, b) == (((a \div 256) * b) + (((a % 256) * b) \div 256)) \div 256

\* u32::wrapping_mul
wrapping_mul(x, y) ==
    <<(mul_high(x[2], y[2]) + mul_low(x[1], y[2]) + mul_low(x[2], y[1])) % WORD,
      mul_low(x[2], y[2])>>

\* u32::wrapping_add
wrapping_add(x, y) ==
    <<(x[1] + y[1] + ((x[2] + y[2]) \div WORD)) % WORD, (x[2] + y[2]) % WORD>>

\* u32::rotate_left, for 0 < n < 16
rotate_left(x, n) ==
    <<((x[1] * (2 ^ n)) % WORD) + (x[2] \div (2 ^ (16 - n))),
      ((x[2] * (2 ^ n)) % WORD) + (x[1] \div (2 ^ (16 - n)))>>

\* >> of a u32, for 0 < n <= 16
shr(x, n) ==
    <<x[1] \div (2 ^ n), (x[2] \div (2 ^ n)) + (((x[1] % (2 ^ n)) * (2 ^ (16 - n))) % WORD)>>

RECURSIVE xor_bits(_, _, _)
\* ^ of the low n bits of a and b
xor_bits(a, b, n) ==
    IF n = 0 THEN 0
    ELSE ((a + b) % 2) + 2 * xor_bits(a \div 2, b \div 2, n - 1)

\* ^ of two u32
xor(x, y) == <<xor_bits(x[1], y[1], 16), xor_bits(x[2], y[2], 16)>>

u32_from_be_bytes(chunk) == <<chunk[1] * 256 + chunk[2], chunk[3] * 256 + chunk[4]>>

\* the chunk read as a u32 and .to_le(): the little-endian value of the bytes
u32_from_le_bytes(chunk) == <<chunk[4] * 256 + chunk[3], chunk[2] * 256 + chunk[1]>>

\* Murmur3::write_chunk
write_chunk(seed, chunk) ==
    xor(seed,
        wrapping_mul(rotate_left(wrapping_mul(u32_from_le_bytes(chunk), Murmur3_C1),
                                 Murmur3_R1),
                     Murmur3_C2))

\* bytes.chunks(4): the first chunk and the rest of the slice
FirstChunk(bytes) == SubSeq(bytes, 1, IF Len(bytes) < 4 THEN Len(bytes) ELSE 4)
AfterFirstChunk(bytes) == SubSeq(bytes, Len(FirstChunk(bytes)) + 1, Len(bytes))

\* the chunk filled up with zero bytes
Padded(chunk) == [i \in 1..4 |-> IF i <= Len(chunk) THEN chunk[i] ELSE 0]

RECURSIVE write_chunks(_, _)
\* Murmur3::write: the loop over the chunks
write_chunks(seed, bytes) ==
    IF bytes = <<>> THEN seed
    ELSE IF Len(FirstChunk(bytes)) = 4
         THEN write_chunks(
                  wrapping_add(wrapping_mul(rotate_left(write_chunk(seed, FirstChunk(bytes)),
                                                        Murmur3_R2),
                                            Murmur3_M),
                               Murmur3_N),
                  AfterFirstChunk(bytes))
         ELSE write_chunks(write_chunk(seed, Padded(FirstChunk(bytes))),
                           AfterFirstChunk(bytes))

\* Murmur3::write: the mix of the length and the final avalanche
finalize(seed, length) ==
    LET h0 == xor(seed, <<length \div WORD, length % WORD>>)
        h1 == wrapping_mul(xor(h0, shr(h0, 16)), <<34283, 51819>>)
        h2 == wrapping_mul(xor(h1, shr(h1, 13)), <<49842, 44597>>)
    IN xor(h2, shr(h2, 16))

\* Murmur3::write
write(seed, bytes) == finalize(write_chunks(seed, bytes), Len(bytes))

\* Murmur3::finish: the seed as a u64
finish(seed) == <<0, 0, seed[1], seed[2]>>

\* "Hello World!"
HelloWorld == <<72, 101, 108, 108, 111, 32, 87, 111, 114, 108, 100, 33>>

\* the slices written: the beginnings and the ends of "Hello World!"
MurmurInputs ==
    { SubSeq(HelloWorld, 1, n) : n \in 0..Len(HelloWorld) }
        \cup { SubSeq(HelloWorld, n, Len(HelloWorld)) : n \in 1..Len(HelloWorld) }

\* Hasher::write is called with `bytes`
MurmurWrite(bytes) ==
    /\ Len(murmur.written) < MaxWrites
    /\ murmur' = [seed |-> write(murmur.seed, bytes),
                  written |-> Append(murmur.written, bytes)]
    /\ UNCHANGED <<string_vars, core_vars, pool_vars, view_vars>>

MurmurInit ==
    /\ with_hasher(0, "Constant")
    /\ SlotMapNew(FALSE)
    /\ murmur = Murmur3Default
    /\ PoolNew
    /\ ViewsNew

MurmurNext == \E bytes \in MurmurInputs : MurmurWrite(bytes)

MurmurSpec == MurmurInit /\ [][MurmurNext]_vars

----------------------------------------------------------------------------
(* SlotMap (crate core, collections::slot_map::sparse). A key is the pair     *)
(* <<index, version>>, a slot the record of its entry and its raw version     *)
(* (the version with the occupied and the reserved bit).                      *)

\* the calls one run makes to a slot map
MaxMapCalls == 9

\* the slots one run makes
MaxSlots == 2

\* the bits of Idx
SlotIdxBits == 4

\* Idx::max_value()
Idx_MAX == (2 ^ SlotIdxBits) - 1

\* Slot::occupied_bit
occupied_bit == 2 ^ (SlotIdxBits - 1)

\* Slot::reserved_bit
reserved_bit == 2 ^ (SlotIdxBits - 2)

\* Slot::max_version
max_version == Idx_MAX - occupied_bit - reserved_bit

\* the values stored
SlotValues == {100, 200}

\* SlotEntry
SlotEntryValue(value) == [kind |-> "Value", x |-> value]
SlotEntryIndex(index) == [kind |-> "Index", x |-> index]
SlotEntryReserved == [kind |-> "Reserved", x |-> 0]

\* what a call returns: a tag and the value or the index it carries
Ret(tag, x) == [tag |-> tag, x |-> x]
Panicked == Ret("panic", 0)

\* version & bit == bit
HasBit(version, bit) == (version \div bit) % 2 = 1

\* Slot::version
slot_version(slot) == slot.version % reserved_bit

\* Slot::occupied
slot_occupied(slot) == HasBit(slot.version, occupied_bit)

\* Slot::reserved
slot_reserved(slot) == HasBit(slot.version, reserved_bit)

\* the debug_assert! of Slot::occupied and Slot::reserved fails
FlagAssertFails(slot) ==
    debug_assertions /\ slot_occupied(slot) /\ slot_reserved(slot)

\* Slot::free
slot_free(slot) == ~slot_occupied(slot) /\ ~slot_reserved(slot)

\* Slot::new
slot_new == [entry |-> SlotEntryReserved, version |-> 1 + reserved_bit]

\* Slot::index panics: its debug_assert!, or SlotEntry::index on another variant
slot_index_panics(slot) ==
    (debug_assertions /\ ~slot_free(slot)) \/ slot.entry.kind # "Index"

same_version(slot) == slot.version

\* Slot::next_version
next_version(slot) ==
    IF slot.version = max_version THEN 1 ELSE (slot.version + 1) % (Idx_MAX + 1)

\* Slot::set_index, on the slot whose version remove has incremented
set_index(slot, index) ==
    [panics |-> FlagAssertFails(slot)
                   \/ (slot_occupied(slot) /\ slot.entry.kind # "Value"),
     slot |-> [entry |-> SlotEntryIndex(index), version |-> slot_version(slot)],
     old |-> IF slot_occupied(slot) THEN Ret("Some", slot.entry.x) ELSE Ret("None", 0)]

set_value_unflagged(slot, value) ==
    [panics |-> FlagAssertFails(slot)
                   \/ (slot_occupied(slot) /\ slot.entry.kind # "Value"),
     slot |-> [entry |-> SlotEntryValue(value), version |-> slot_version(slot)],
     old |-> IF slot_occupied(slot) THEN Ret("OkSome", slot.entry.x) ELSE Ret("OkNone", 0)]

\* Slot::set_value
set_value(slot, value) ==
    [panics |-> FlagAssertFails(slot)
                   \/ (slot_occupied(slot) /\ slot.entry.kind # "Value"),
     slot |-> [entry |-> SlotEntryValue(value),
               version |-> slot_version(slot) + occupied_bit],
     old |-> IF slot_occupied(slot) THEN Ret("OkSome", slot.entry.x) ELSE Ret("OkNone", 0)]

\* self.slots.get(index)
HasSlot(m, index) == index < Len(m.slots)
SlotAt(m, index) == m.slots[index + 1]

\* SlotMap::create_key: the map afterwards, the key and what the call returns
create_key(m) ==
    IF HasSlot(m, m.free_head)
    THEN LET slot == SlotAt(m, m.free_head)
         IN IF slot_index_panics(slot)
            THEN [map |-> m, key |-> NoKey, ret |-> Panicked]
            ELSE IF debug_assertions /\ slot_version(slot) = 0
            THEN [map |-> [m EXCEPT !.free_head = slot.entry.x], key |-> NoKey,
                  ret |-> Panicked]
            ELSE [map |-> [m EXCEPT !.free_head = slot.entry.x],
                  key |-> <<m.free_head, slot_version(slot)>>,
                  ret |-> Ret("Key", m.free_head)]
    ELSE IF Len(m.slots) = Idx_MAX
    THEN [map |-> m, key |-> NoKey, ret |-> Panicked]
    ELSE [map |-> [m EXCEPT !.slots = Append(@, slot_new),
                            !.free_head = 1 + Len(m.slots)],
          key |-> <<m.free_head, 1>>,
          ret |-> Ret("Key", m.free_head)]

\* SlotMap::contains_key
contains_key(m, key) ==
    /\ HasSlot(m, key[1])
    /\ slot_occupied(SlotAt(m, key[1]))
    /\ slot_version(SlotAt(m, key[1])) = key[2]

\* SlotMap::get
get(m, key) ==
    IF contains_key(m, key)
    THEN IF SlotAt(m, key[1]).entry.kind = "Value"
         THEN Ret("Some", SlotAt(m, key[1]).entry.x)
         ELSE Panicked
    ELSE Ret("None", 0)

\* the number of slots instead of the number of values
map_len_of_slots(m) == Len(m.slots)

\* SlotMap::len
map_len(m) == m.len

\* SlotMap::insert_with_key: the map afterwards and what the call returns
insert_with_key(m, key, value) ==
    IF HasSlot(m, key[1])
    THEN LET slot == SlotAt(m, key[1])
             counted == IF slot_occupied(slot) THEN m ELSE [m EXCEPT !.len = @ + 1]
             linked == IF slot_free(slot)
                       THEN [counted EXCEPT !.free_head = slot.entry.x]
                       ELSE counted
             set == set_value(slot, value)
         IN IF key[2] # slot_version(slot)
            THEN [map |-> m, ret |-> Ret("Err", value)]
            ELSE IF FlagAssertFails(slot)
            THEN [map |-> m, ret |-> Panicked]
            ELSE IF slot_free(slot) /\ slot_index_panics(slot)
            THEN [map |-> counted, ret |-> Panicked]
            ELSE IF set.panics
            THEN [map |-> linked, ret |-> Panicked]
            ELSE [map |-> [linked EXCEPT !.slots[key[1] + 1] = set.slot],
                  ret |-> set.old]
    ELSE [map |-> m, ret |-> Ret("Err", value)]

\* SlotMap::remove: the map afterwards and what the call returns
remove(m, key) ==
    IF HasSlot(m, key[1])
    THEN LET slot == SlotAt(m, key[1])
             counted == IF slot_occupied(slot) THEN [m EXCEPT !.len = @ - 1] ELSE m
             incremented == [slot EXCEPT !.version = next_version(slot)]
             set == set_index(incremented, m.free_head)
         IN IF slot_version(slot) # key[2]
            THEN [map |-> m, ret |-> Ret("None", 0)]
            ELSE IF FlagAssertFails(slot)
            THEN [map |-> m, ret |-> Panicked]
            ELSE IF slot_occupied(slot) \/ slot_reserved(slot)
            THEN IF set.panics
                 THEN [map |-> [counted EXCEPT !.slots[key[1] + 1] = incremented],
                       ret |-> Panicked]
                 ELSE [map |-> [counted EXCEPT !.slots[key[1] + 1] = set.slot,
                                               !.free_head = key[1]],
                       ret |-> set.old]
            ELSE [map |-> m, ret |-> Ret("None", 0)]
    ELSE [map |-> m, ret |-> Ret("None", 0)]

\* SlotMap::insert: create_key, then insert_with_key with its key
insert(m, value) ==
    LET created == create_key(m)
        inserted == insert_with_key(created.map, created.key, value)
    IN IF created.ret = Panicked THEN created
       ELSE IF inserted.ret = Panicked
       THEN [map |-> inserted.map, key |-> NoKey, ret |-> Panicked]
       ELSE [map |-> inserted.map, key |-> created.key,
             ret |-> Ret("Key", created.key[1])]

\* a call can be made: no call has panicked and the run has calls left
CanCall == map_calls < MaxMapCalls /\ map_ret.ret # Panicked

\* create_key can be called: it reuses a slot, or the run has slots left
CanCreate == CanCall /\ (HasSlot(map, map.free_head) \/ Len(map.slots) < MaxSlots)

\* remove(key) has changed the slot of `key`
TookEffect(m, key) ==
    /\ HasSlot(m, key[1])
    /\ slot_version(SlotAt(m, key[1])) = key[2]
    /\ ~slot_free(SlotAt(m, key[1]))

\* SlotMap::create_key is called
CreateKey ==
    /\ CanCreate
    /\ LET r == create_key(map)
       IN /\ map' = r.map
          /\ map_ret' = [op |-> "create_key", key |-> r.key, value |-> None, ret |-> r.ret]
          /\ given' = IF r.ret = Panicked THEN given ELSE given \cup {r.key}
          /\ handed' = IF r.ret = Panicked THEN handed ELSE handed \cup {r.key}
          /\ pending' = IF r.ret = Panicked THEN pending ELSE pending \cup {r.key}
    /\ map_calls' = map_calls + 1
    /\ UNCHANGED <<string_vars, util_vars, pool_vars, view_vars, debug_assertions, removed>>

\* SlotMap::insert is called with `value`
Insert(value) ==
    /\ CanCreate
    /\ LET r == insert(map, value)
       IN /\ map' = r.map
          /\ map_ret' = [op |-> "insert", key |-> r.key, value |-> value, ret |-> r.ret]
          /\ given' = IF r.ret = Panicked THEN given ELSE given \cup {r.key}
          /\ handed' = IF r.ret = Panicked THEN handed ELSE handed \cup {r.key}
          /\ pending' = IF r.ret = Panicked THEN pending ELSE pending \ {r.key}
    /\ map_calls' = map_calls + 1
    /\ UNCHANGED <<string_vars, util_vars, pool_vars, view_vars, debug_assertions, removed>>

\* SlotMap::insert_with_key is called with a key the map has returned
InsertWithKey(key, value) ==
    /\ CanCall
    /\ key \in given
    /\ LET r == insert_with_key(map, key, value)
       IN /\ map' = r.map
          /\ map_ret' = [op |-> "insert_with_key", key |-> key, value |-> value,
                         ret |-> r.ret]
          /\ pending' = IF r.ret.tag \in {"OkSome", "OkNone"} THEN pending \ {key}
                        ELSE pending
    /\ map_calls' = map_calls + 1
    /\ UNCHANGED <<string_vars, util_vars, pool_vars, view_vars, debug_assertions, given, handed, removed>>

\* SlotMap::remove is called with a key the map has returned
Remove(key) ==
    /\ CanCall
    /\ key \in given
    /\ LET r == remove(map, key)
           effect == TookEffect(map, key) /\ r.ret # Panicked
           wraps == slot_version(SlotAt(r.map, key[1])) < key[2]
       IN /\ map' = r.map
          /\ map_ret' = [op |-> "remove", key |-> key, value |-> None, ret |-> r.ret]
          /\ handed' = handed \ {key}
          /\ pending' = IF effect THEN pending \ {key} ELSE pending
          /\ removed' =
                IF effect
                THEN { IF e.key[1] = key[1] THEN [e EXCEPT !.wrapped = @ \/ wraps] ELSE e
                         : e \in removed }
                     \cup (IF r.ret.tag = "Some"
                           THEN {[key |-> key, wrapped |-> FALSE]} ELSE {})
                ELSE removed
    /\ map_calls' = map_calls + 1
    /\ UNCHANGED <<string_vars, util_vars, pool_vars, view_vars, debug_assertions, given>>

SlotInit ==
    /\ with_hasher(0, "Constant")
    /\ murmur = Murmur3Default
    /\ PoolNew
    /\ ViewsNew
    /\ \E debug \in BOOLEAN : SlotMapNew(debug)

SlotNext ==
    \/ CreateKey
    \/ \E value \in SlotValues : Insert(value)
    \/ \E key \in given, value \in SlotValues : InsertWithKey(key, value)
    \/ \E key \in given : Remove(key)

SlotSpec == SlotInit /\ [][SlotNext]_vars

----------------------------------------------------------------------------
(* The slot map with its draining calls.                                     *)

\* self.map.remove(key).unwrap() in Drain::next and DrainFilter::next, on the
\* map and the histories of `st`: a record of map, ret, handed, pending,
\* removed and the number of pairs drained
remove_unwrap(st, key) ==
    LET r == remove(st.map, key)
        effect == TookEffect(st.map, key) /\ r.ret # Panicked
        wraps == slot_version(SlotAt(r.map, key[1])) < key[2]
    IN [map |-> r.map,
        ret |-> IF r.ret.tag = "Some" THEN r.ret ELSE Panicked,
        handed |-> st.handed \ {key},
        pending |-> IF effect THEN st.pending \ {key} ELSE st.pending,
        removed |->
            IF effect
            THEN { IF e.key[1] = key[1] THEN [e EXCEPT !.wrapped = @ \/ wraps] ELSE e
                     : e \in st.removed }
                 \cup (IF r.ret.tag = "Some"
                       THEN {[key |-> key, wrapped |-> FALSE]} ELSE {})
            ELSE st.removed,
        drained |-> st.drained + 1]

\* Key::new panics: its debug_assert! on a version of zero
key_new_panics(version) == debug_assertions /\ version = 0

RECURSIVE drain_next(_, _)
\* Drain::next from the slot `current` on, called until it returns None, as
\* collect and the Drop of Drain call it
drain_next(st, current) ==
    IF current >= Len(st.map.slots) THEN st
    ELSE LET slot == SlotAt(st.map, current)
             key == <<current, slot_version(slot)>>
             taken == remove_unwrap(st, key)
         IN IF key_new_panics(slot_version(slot)) \/ FlagAssertFails(slot)
            THEN [st EXCEPT !.ret = Panicked]
            ELSE IF ~slot_occupied(slot) THEN drain_next(st, current + 1)
            ELSE IF taken.ret = Panicked THEN taken
            ELSE drain_next(taken, current + 1)

RECURSIVE drain_filter_next(_, _, _)
\* DrainFilter::next from the slot `current` on, called until it returns None;
\* the predicate holds of the values in `filtered`
drain_filter_next(st, current, filtered) ==
    IF current >= Len(st.map.slots) THEN st
    ELSE LET slot == SlotAt(st.map, current)
             key == <<current, slot_version(slot)>>
             taken == remove_unwrap(st, key)
         IN IF key_new_panics(slot_version(slot)) \/ FlagAssertFails(slot)
            THEN [st EXCEPT !.ret = Panicked]
            ELSE IF ~slot_occupied(slot) THEN drain_filter_next(st, current + 1, filtered)
            ELSE IF slot.entry.kind # "Value" THEN [st EXCEPT !.ret = Panicked]
            ELSE IF slot.entry.x \notin filtered
            THEN drain_filter_next(st, current + 1, filtered)
            ELSE IF taken.ret = Panicked THEN taken
            ELSE drain_filter_next(taken, current + 1, filtered)

\* the map and the histories when a draining call begins
Draining == [map |-> map, ret |-> Ret("None", 0), handed |-> handed, pending |-> pending,
             removed |-> removed, drained |-> 0]

\* SlotMap::drain is called and the Drain is used up
Drain ==
    /\ CanCall
    /\ LET r == drain_next(Draining, 0)
       IN /\ map' = r.map
          /\ map_ret' = [op |-> "drain", key |-> NoKey, value |-> None,
                         ret |-> IF r.ret = Panicked THEN Panicked
                                 ELSE Ret("Drained", r.drained)]
          /\ handed' = r.handed
          /\ pending' = r.pending
          /\ removed' = r.removed
    /\ map_calls' = map_calls + 1
    /\ UNCHANGED <<string_vars, util_vars, pool_vars, view_vars, debug_assertions, given>>

\* SlotMap::clear is called: the Drain is dropped at once
Clear ==
    /\ CanCall
    /\ LET r == drain_next(Draining, 0)
       IN /\ map' = r.map
          /\ map_ret' = [op |-> "clear", key |-> NoKey, value |-> None,
                         ret |-> IF r.ret = Panicked THEN Panicked ELSE Ret("Unit", 0)]
          /\ handed' = r.handed
          /\ pending' = r.pending
          /\ removed' = r.removed
    /\ map_calls' = map_calls + 1
    /\ UNCHANGED <<string_vars, util_vars, pool_vars, view_vars, debug_assertions, given>>

\* SlotMap::retain is called with a predicate that holds of the values in `kept`
Retain(kept) ==
    /\ CanCall
    /\ LET r == drain_filter_next(Draining, 0, SlotValues \ kept)
       IN /\ map' = r.map
          /\ map_ret' = [op |-> "retain", key |-> NoKey, value |-> None,
                         ret |-> IF r.ret = Panicked THEN Panicked ELSE Ret("Unit", 0)]
          /\ handed' = r.handed
          /\ pending' = r.pending
          /\ removed' = r.removed
    /\ map_calls' = map_calls + 1
    /\ UNCHANGED <<string_vars, util_vars, pool_vars, view_vars, debug_assertions, given>>

DrainNext ==
    \/ CreateKey
    \/ \E value \in SlotValues : Insert(value)
    \/ \E key \in given, value \in SlotValues : InsertWithKey(key, value)
    \/ \E key \in given : Remove(key)
    \/ Drain
    \/ Clear
    \/ \E kept \in SUBSET SlotValues : Retain(kept)

DrainSpec == SlotInit /\ [][DrainNext]_vars

----------------------------------------------------------------------------
(* Vocabulary of the properties. *)

\* the first MAX_STRING_LENGTH bytes of s, all of s when it is not longer
TruncationOf(s) ==
    IF Len(s) <= MAX_STRING_LENGTH THEN s
    ELSE [k \in 1..MAX_STRING_LENGTH |-> s[k]]

\* what Subsystem::string returns for a handle in the current state
Resolved(id) == as_str(entries[get_unchecked(id)])

\* the strings intern calls have returned a handle for
IssuedStrings == { i[1] : i \in issued }

\* the positions of a thread inside create_string_id
InternPcs == {"find_entry", "lock", "find_head", "allocate", "init_entry", "push_slot",
              "push_len", "set_id", "publish", "return", "panicked"}

\* the strings create_string_id has been called with
Requested ==
    IssuedStrings \cup
    { th[t].s : t \in { u \in Threads : th[u].pc \in InternPcs } }

\* the entries whose id has been assigned
Identified == { a \in DOMAIN entries : entries[a].id # None }

\* the largest number of elements the pages of the StaticRefVector can hold
PageCapacity ==
    ((max_strings \div ELEMENTS_PER_PAGE)
        + (IF max_strings % ELEMENTS_PER_PAGE = 0 THEN 0 ELSE 1)) * ELEMENTS_PER_PAGE

----------------------------------------------------------------------------
(* C1: any two intern calls with the same string, of any length, return the *)
(* same handle, whatever was interned in between.                           *)
C1_SameStringSameHandle ==
    \A i, j \in issued : i[1] = j[1] => i[2] = j[2]

(* C2: intern calls with two byte-distinct strings return different handles. *)
C2_DistinctStringsDistinctHandles ==
    \A i, j \in issued : i[1] # j[1] => i[2] # j[2]

(* C2, amended: intern calls with two strings whose MAX_STRING_LENGTH        *)
(* truncations are byte-distinct return different handles.                   *)
C2_DistinctTruncationsDistinctHandles ==
    \A i, j \in issued : TruncationOf(i[1]) # TruncationOf(j[1]) => i[2] # j[2]

\* two strings with distinct truncations and the same bucket have handles, and one
\* of them is longer than MAX_STRING_LENGTH
C2_Witness ==
    \E i, j \in issued :
        /\ TruncationOf(i[1]) # TruncationOf(j[1])
        /\ Bucket(i[1]) = Bucket(j[1])
        /\ Len(i[1]) > MAX_STRING_LENGTH

(* C3: the handle an intern call returned for s resolves to the bytes of s, *)
(* or to its first MAX_STRING_LENGTH bytes when s is longer, in every later *)
(* state, whatever is interned afterwards.                                  *)
C3_RoundTrip ==
    \A i \in issued :
        /\ ~GetUncheckedUndefined(i[2])
        /\ Resolved(i[2]) = TruncationOf(i[1])

\* the first handle was issued for a string longer than MAX_STRING_LENGTH, and a
\* later intern call has created and published a second entry
C3_Witness ==
    /\ \E i \in issued : Len(i[1]) > MAX_STRING_LENGTH /\ i[2] = 1
    /\ len = 2
    /\ Cardinality(Reachable) = 2

(* C4: under concurrent intern calls every thread receives the same handle  *)
(* for a given string, and one entry is created per distinct string.        *)
C4_ConcurrentInternOneEntry ==
    /\ \A t \in Threads : \A i \in issued :
           (th[t].pc = "return" /\ th[t].s = i[1]) => th[t].id = i[2]
    /\ \A a, b \in DOMAIN entries : entries[a].made_for = entries[b].made_for => a = b

(* C5: an entry a probe can reach from a bucket head over next links has its *)
(* handle assigned and its length and bytes at their final values: the call  *)
(* that made it has no write to it left, and it holds the bytes that call    *)
(* stored.                                                                   *)
C5_ReachableEntriesComplete ==
    \A a \in Reachable :
        /\ entries[a].id # None
        /\ entries[a].len = Len(entries[a].data)
        /\ \A t \in Threads :
               th[t].entry = a =>
                   /\ th[t].pc = "return"
                   /\ as_str(entries[a]) = TruncationOf(th[t].s)
                   /\ entries[a].id = th[t].id

\* a probe of one thread stands on an entry the other thread has just published
\* and not yet returned from
C5_Witness ==
    \E t, u \in Threads :
        /\ th[t].pc = "find_entry"
        /\ th[u].pc = "return"
        /\ th[u].entry # NULL
        /\ th[t].cur = th[u].entry

(* C6: while another thread interns fresh strings, resolving a handle that   *)
(* was returned before reads the written slot of an installed page, which    *)
(* still holds what was read, and yields the payload the handle was issued   *)
(* for.                                                                      *)
C6_ResolveDuringIntern ==
    /\ ~ub
    /\ \A t \in Threads :
           th[t].pc \in {"resolve_str", "resolved"} =>
               /\ ~GetUncheckedUndefined(th[t].id)
               /\ th[t].cur = get_unchecked(th[t].id)
               /\ th[t].pc = "resolved" =>
                      \A i \in issued : i[2] = th[t].id => th[t].res = TruncationOf(i[1])

\* a resolve has finished while the other thread is between the write of a slot of
\* the same page and the store of the length
C6_Witness ==
    \E t, u \in Threads :
        /\ th[t].pc = "resolved"
        /\ th[u].pc = "push_len"
        /\ page_index(len) = page_index(get_index(th[t].id))
        /\ \E i \in issued : i[2] = th[t].id /\ th[t].res = TruncationOf(i[1])

(* C7: no two different handles of a subsystem resolve to byte-identical     *)
(* strings, handles of truncated inputs included.                            *)
C7_HandlesResolveToDistinctStrings ==
    \A g, h \in IssuedHandles : g # h => Resolved(g) # Resolved(h)

(* C8: while at most max_strings distinct strings have been requested, no    *)
(* intern call panics, whatever valid UTF-8 string it is given.              *)
C8_NoPanicWithinMaxStrings ==
    (\E t \in Threads : th[t].pc = "panicked") => Cardinality(Requested) > max_strings

(* C9: no more than max_strings distinct strings ever receive a handle: the  *)
(* intern call for distinct string number max_strings + 1 panics.  Strings   *)
(* are counted by the bytes stored for them, a string longer than            *)
(* MAX_STRING_LENGTH and its truncation once.                                *)
C9_PanicAtMaxStringsPlusOne ==
    Cardinality({ TruncationOf(s) : s \in IssuedStrings }) <= max_strings

(* C9, amended: no more entries than the pages of the handle-index vector    *)
(* hold, max_strings rounded up to a multiple of ELEMENTS_PER_PAGE, ever     *)
(* receive a handle: the push of an entry panics, poisoning the mutex and    *)
(* leaving the length as it is, exactly when the length has reached that     *)
(* number.                                                                   *)
C9_PanicBeyondPageCapacity ==
    [][/\ len' <= PageCapacity
       /\ \A t \in Threads :
              (th[t].pc = "push_slot" /\ th'[t].pc # "push_slot") =>
                  IF len = PageCapacity
                  THEN th'[t].pc = "panicked" /\ mutex'.poisoned /\ len' = len
                  ELSE th'[t].pc = "push_len"]_vars

\* a push has panicked in a subsystem whose max_strings is no multiple of
\* ELEMENTS_PER_PAGE, after max_strings rounded up handles were assigned
C9_Witness ==
    /\ max_strings % ELEMENTS_PER_PAGE # 0
    /\ len = PageCapacity
    /\ \E t \in Threads : th[t].pc = "panicked" /\ th[t].entry # NULL
    /\ mutex.poisoned

(* C10: handles are allocated sequentially from 1: the k-th entry created is *)
(* given the handle value k, and slot k - 1 of the handle-index vector       *)
(* points to it; the handle values assigned after n pushes are exactly 1..n  *)
(* (but for the push whose handle is about to be written into its entry).    *)
C10_HandlesSequential ==
    /\ { entries[a].id : a \in Identified } = 1..Cardinality(Identified)
    /\ Cardinality(Identified)
           = len - Cardinality({ t \in Threads : th[t].pc = "set_id" })
    /\ \A a \in Identified :
           /\ Cardinality({ b \in DOMAIN entries : b <= a }) = entries[a].id
           /\ ~GetUncheckedUndefined(entries[a].id)
           /\ get_unchecked(entries[a].id) = a
    /\ IssuedHandles \subseteq 1..len

\* two entries carry the handles 1 and 2: the first was returned, the second has
\* just been published by a call that is about to return it
C10_Witness ==
    /\ Cardinality(Identified) = 2
    /\ \E i \in issued : i[2] = 1
    /\ \E t \in Threads : th[t].pc = "return" /\ th[t].id = 2 /\ th[t].entry # NULL

(* C11: for every string s the length of the handle intern returned for s is *)
(* the smaller of len(s) and MAX_STRING_LENGTH, a finished length call        *)
(* returns it, and is_empty of an issued handle is true exactly when its      *)
(* length is 0, also as a finished is_empty call returns it.                  *)
C11_LengthAgreement ==
    /\ \A i \in issued :
           LET e == entries[get_unchecked(i[2])]
               m == IF Len(i[1]) < MAX_STRING_LENGTH THEN Len(i[1]) ELSE MAX_STRING_LENGTH
           IN /\ ~GetUncheckedUndefined(i[2])
              /\ entry_len(e) = m
              /\ entry_is_empty(e) <=> (entry_len(e) = 0)
              /\ \A t \in Threads :
                     th[t].id = i[2] =>
                         /\ th[t].pc = "len_done" => th[t].res = m
                         /\ th[t].pc = "is_empty_done" => (th[t].res <=> (m = 0))

\* a length call has returned MAX_STRING_LENGTH for the handle of a longer string
\* while an is_empty call for the same handle has returned false
C11_Witness ==
    \E t, u \in Threads : \E i \in issued :
        /\ Len(i[1]) > MAX_STRING_LENGTH
        /\ th[t].pc = "len_done" /\ th[t].id = i[2] /\ th[t].res = MAX_STRING_LENGTH
        /\ th[u].pc = "is_empty_done" /\ th[u].id = i[2] /\ th[u].res = FALSE

(* C12: with a hasher that maps every string to the same bucket, intern calls *)
(* return equal handles for byte-identical strings and distinct handles for   *)
(* byte-distinct strings (strings are told apart by the bytes stored for      *)
(* them, their first MAX_STRING_LENGTH bytes), every handle resolves to the   *)
(* bytes interned for it, and no call panics because of the collisions: a     *)
(* panic has another cause (the slice, or the full vector).                   *)
C12_CollisionsNeverBreakInterning ==
    build_hasher = "Constant" =>
        /\ \A i, j \in issued : i[1] = j[1] => i[2] = j[2]
        /\ \A i, j \in issued : TruncationOf(i[1]) # TruncationOf(j[1]) => i[2] # j[2]
        /\ \A i \in issued : Resolved(i[2]) = TruncationOf(i[1])
        /\ \A t \in Threads :
               th[t].pc = "panicked" =>
                   SlicePanics(th[t].s) \/ len = PageCapacity \/ mutex.poisoned

(* C13: an intern call for a string that is already present and a resolve     *)
(* call never acquire the writer mutex, and they finish within a number of    *)
(* own steps bounded by the chain length whatever the holder of the mutex     *)
(* does: the intern call is on the lock-free probe or has returned, the       *)
(* entry of its string lies ahead of the probe in the chain, and the next     *)
(* step of either call is enabled.                                            *)
C13_FastPathsWaitFree ==
    \A t \in Threads :
        /\ th[t].present =>
               /\ th[t].pc \in {"find_entry", "return"}
               /\ ~Holds(t)
               /\ th[t].pc = "find_entry" =>
                      /\ \E k \in 1..Len(ChainOf(th[t].cur)) :
                             entries[ChainOf(th[t].cur)[k]].made_for = th[t].s
                      /\ ENABLED FindEntry(t)
               /\ th[t].pc = "return" => ENABLED Return(t)
        /\ th[t].pc \in {"resolve_str", "resolved"} =>
               /\ ~Holds(t)
               /\ ENABLED (ResolveStr(t) \/ EndResolve(t))

(* C14: once an entry is reachable through a bucket head, none of its next,   *)
(* handle, length and bytes fields is ever written again.                     *)
C14_ReachableEntriesNeverWritten ==
    [][\A a \in Reachable : entries'[a] = entries[a]]_vars

(* C14, amended: once an entry is reachable through a bucket head, its        *)
(* handle, length and bytes are never written again, and its next field is    *)
(* written at most once: while it is null, by the insertion that appends the  *)
(* next entry of the chain to it.                                             *)
C14_ReachableEntriesFrozenButTailNext ==
    [][\A a \in Reachable :
           /\ entries'[a].id = entries[a].id
           /\ entries'[a].len = entries[a].len
           /\ entries'[a].data = entries[a].data
           /\ entries'[a].next # entries[a].next =>
                  /\ entries[a].next = NULL
                  /\ \E t \in Threads :
                         th[t].pc = "publish" /\ entries'[a].next = th[t].entry]_vars

\* a chain of two entries: the next field of the first, reachable entry was written
\* when the second was appended
C14_Witness ==
    \E a \in Reachable :
        /\ entries[a].next # NULL
        /\ entries[a].next \in Reachable
        /\ entries[entries[a].next].id # None

(* C15: in the handle-index vector a written slot is never rewritten, an      *)
(* installed page is never replaced or removed (the slot written is the one   *)
(* at the published length, in the page of that index), and the published     *)
(* length only grows, by exactly one with every push that completes.          *)
C15_VectorAppendOnly ==
    [][/\ DOMAIN pages' = DOMAIN pages
       /\ \A p \in DOMAIN pages :
              /\ pages[p].present => pages'[p].present
              /\ \A i \in 0..(ELEMENTS_PER_PAGE - 1) :
                     /\ pages[p].slot[i] # NULL => pages'[p].slot[i] = pages[p].slot[i]
                     /\ pages'[p].slot[i] # pages[p].slot[i] =>
                            p * ELEMENTS_PER_PAGE + i = len
       /\ len' \in {len, len + 1}
       /\ (len' = len + 1) <=>
              \E t \in Threads : th[t].pc = "push_len" /\ th'[t].pc # "push_len"]_vars

\* three pushes have completed: both slots of the first page are written and the
\* second page is installed
C15_Witness ==
    /\ len = ELEMENTS_PER_PAGE + 1
    /\ \A i \in 0..(ELEMENTS_PER_PAGE - 1) : pages[0].slot[i] # NULL
    /\ pages[1].present
    /\ pages[1].slot[0] # NULL

(* C16: at every interleaving point with a concurrent push, get returns None  *)
(* exactly when the index of the handle is not below the published length it  *)
(* loads, and otherwise goes on to the slot and returns the non-null entry    *)
(* pointer written there: a reader that saw length >= index + 1 finds the     *)
(* page installed and the slot written, and never runs into the unreachable   *)
(* branch.                                                                    *)
C16_GetSeesPublishedSlots ==
    /\ [](/\ ~ub
          /\ \A t \in Threads :
                 /\ th[t].pc = "get_slot" =>
                        /\ get_index(th[t].id) < len
                        /\ ~GetUncheckedUndefined(th[t].id)
                 /\ (th[t].pc = "get_done" /\ th[t].res = "Some") =>
                        /\ th[t].cur # NULL
                        /\ th[t].cur = get_unchecked(th[t].id)
                        /\ th[t].cur \in DOMAIN entries)
    /\ [][\A t \in Threads :
              (th[t].pc = "idle" /\ th'[t].pc \in {"get_slot", "get_done"}) =>
                  ((th'[t].pc = "get_done" /\ th'[t].res = "None")
                       <=> get_index(th'[t].id) >= len)]_vars

\* a push has written the second slot and not yet stored the length, and a get
\* of the handle of that slot has returned None
C16_Witness ==
    \E t, u \in Threads :
        /\ th[u].pc = "push_len"
        /\ len = 1
        /\ pages[0].slot[1] # NULL
        /\ th[t].pc = "get_done"
        /\ th[t].id = 2
        /\ th[t].res = "None"

----------------------------------------------------------------------------
(* Vocabulary of the properties of Name. *)

\* the index (counted from 1) the maximal run of ASCII digits at the end of s
\* starts at, Len(s) + 1 when s does not end in a digit
RECURSIVE RunStartFrom(_, _)
RunStartFrom(s, i) ==
    IF i = 0 \/ ~(s[i] \in 48..57) THEN i + 1 ELSE RunStartFrom(s, i - 1)

\* the maximal run of ASCII digits at the end of s, and s without it
TrailingDigits(s) == SubSeq(s, RunStartFrom(s, Len(s)), Len(s))
WithoutTrailingDigits(s) == SubSeq(s, 1, RunStartFrom(s, Len(s)) - 1)

\* the decimal value of a string of digits
RECURSIVE DecimalValue(_)
DecimalValue(d) ==
    IF d = <<>> THEN 0
    ELSE DecimalValue(SubSeq(d, 1, Len(d) - 1)) * 10 + (d[Len(d)] - 48)

\* d is a decimal numeral without a leading zero that fits in a u32
IsNumeral(d) == d # <<>> /\ d[1] # 48 /\ DecimalValue(d) <= U32_MAX

(* C17: Name::new(s) splits s by the maximal run R of ASCII digits at its end: *)
(* if R is empty or starts with '0', the Name has no suffix and its prefix is  *)
(* all of s; otherwise the suffix is the decimal value of R and the prefix is  *)
(* s without R, but for an R that does not fit in a u32: then there is no      *)
(* suffix and the prefix is all of s.                                          *)
C17_SplitByTrailingDigitRun ==
    \A n \in names :
        IF IsNumeral(TrailingDigits(n.name))
        THEN /\ n.number = DecimalValue(TrailingDigits(n.name))
             /\ n.prefix = WithoutTrailingDigits(n.name)
        ELSE /\ n.number = None
             /\ n.prefix = n.name

C19_NameReconstructsInput ==
    \A n \in names : to_string(n) = n.name /\ name_eq_str(n, n.name)

(* C19, amended: for every string s whose string part, s without the number    *)
(* Name::new splits off, is at most MAX_STRING_LENGTH bytes long, the text     *)
(* reconstructed from Name::new(s) is byte-identical to s, and Name::new(s)    *)
(* compares equal to the plain string s.                                       *)
C19_NameReconstructsShortInput ==
    \A n \in names :
        Len(n.prefix) <= MAX_STRING_LENGTH =>
            to_string(n) = n.name /\ name_eq_str(n, n.name)

\* a Name with a number whose string part ends in a '0' of the input's digit run
\* reconstructs its input
C19_Witness ==
    \E n \in names :
        /\ n.number # None
        /\ n.prefix # <<>>
        /\ Len(n.prefix) <= MAX_STRING_LENGTH
        /\ n.prefix[Len(n.prefix)] = 48
        /\ to_string(n) = n.name
        /\ name_eq_str(n, n.name)

(* C20: for a prefix p that does not end in an ASCII digit and two different   *)
(* decimal numerals d1 and d2 without a leading zero that fit in a u32,        *)
(* Name::new(p + d1) and Name::new(p + d2) carry the same prefix handle and    *)
(* compare unequal.                                                            *)
C20_NumberedNamesSharePrefixHandle ==
    \A n, m \in names :
        (/\ WithoutTrailingDigits(n.name) = WithoutTrailingDigits(m.name)
         /\ TrailingDigits(n.name) # TrailingDigits(m.name)
         /\ IsNumeral(TrailingDigits(n.name))
         /\ IsNumeral(TrailingDigits(m.name)))
            => (n.id = m.id /\ ~name_eq(n, m))

(* C21: the length of Name::new(s) is the length of its prefix plus the      *)
(* number of decimal digits of its suffix, which is the byte length of s, and *)
(* Name::new(s) is empty only when s is the empty string.                     *)
C21_NameLenIsInputLen ==
    \A n \in names :
        /\ name_len(n) = Len(n.name)
        /\ name_is_empty(n) <=> (n.name = <<>>)

(* C21, amended: the length of Name::new(s) is the length of its stored       *)
(* prefix plus the number of decimal digits of its suffix; that is the byte   *)
(* length of s when the string part of s is at most MAX_STRING_LENGTH bytes   *)
(* long, and MAX_STRING_LENGTH plus the number of digits otherwise.           *)
(* Name::new(s) is empty only when s is the empty string.                     *)
C21_NameLenIsStoredLen ==
    \A n \in names :
        /\ name_len(n) =
               Len(string_part(n)) + (IF n.number = None THEN 0
                                      ELSE Len(TrailingDigits(n.name)) - (Len(n.prefix)
                                               - Len(WithoutTrailingDigits(n.name))))
        /\ name_len(n) =
               IF Len(n.prefix) <= MAX_STRING_LENGTH THEN Len(n.name)
               ELSE MAX_STRING_LENGTH + (Len(n.name) - Len(n.prefix))
        /\ name_is_empty(n) <=> (n.name = <<>>)

\* a Name with a number and a string part longer than MAX_STRING_LENGTH, and a
\* Name that is only a number
C21_Witness ==
    /\ \E n \in names :
           /\ n.number # None
           /\ Len(n.prefix) > MAX_STRING_LENGTH
           /\ name_len(n) = MAX_STRING_LENGTH + Len(to_decimal(n.number))
    /\ \E n \in names :
           /\ n.number # None
           /\ n.prefix = <<>>
           /\ ~name_is_empty(n)

\* no intern call is in progress
NoInternInProgress == \A t \in Threads : th[t].pc \notin InternPcs \ {"panicked"}

RECURSIVE StoredPayload(_)
\* the total length of the payloads stored in the entries of the set `as`
StoredPayload(as) ==
    IF as = {} THEN 0
    ELSE LET a == CHOOSE x \in as : TRUE
         IN entry_len(entries[a]) + StoredPayload(as \ {a})

(* C22: with track_strings enabled and no intern call in progress,            *)
(* strings_allocated is the number of distinct entries created and            *)
(* average_string_length is the total stored payload length divided (integer  *)
(* division) by strings_allocated, or 0 when nothing has been interned; an     *)
(* intern of a string that is already present changes neither.                *)
C22_TrackerMatchesEntries ==
    /\ [](NoInternInProgress =>
             /\ tracker.strings_allocated = Cardinality(Reachable)
             /\ average_length =
                    IF Reachable = {} THEN 0
                    ELSE StoredPayload(Reachable) \div tracker.strings_allocated)
    /\ [][\A t \in Threads :
             (th[t].pc = "return" /\ th[t].present /\ th'[t].pc = "idle")
                 => /\ tracker'.strings_allocated = tracker.strings_allocated
                    /\ average_length' = average_length]_vars

(* C23: hashing the 12 bytes of "Hello World!" in a single write with a       *)
(* default (seed 0) Murmur3 hasher yields 3691591037, that is                 *)
(* 56329 * 2^16 + 13693.                                                      *)
C23_HelloWorldHash ==
    murmur.written = <<HelloWorld>> => finish(murmur.seed) = <<0, 0, 56329, 13693>>

\* "Hello World!" was written to a default hasher, and the hash is not that of
\* its first eight bytes
C23_Witness ==
    /\ murmur.written = <<HelloWorld>>
    /\ finish(murmur.seed) = <<0, 0, 56329, 13693>>
    /\ finish(murmur.seed) # finish(write(Murmur3Default.seed, SubSeq(HelloWorld, 1, 8)))

(* C25: slot map keys are unique: a key returned by insert or create_key is  *)
(* never equal to another key that was handed out earlier and has not been    *)
(* removed, for any sequence of create_key, insert, insert_with_key and        *)
(* remove calls.                                                              *)
C25_KeysUnique ==
    [][(map_calls' = map_calls + 1
            /\ map_ret'.op \in {"create_key", "insert"}
            /\ map_ret'.ret # Panicked)
           => map_ret'.key \notin handed]_vars

NextReused(m, index) ==
    /\ m.free_head = index
    /\ HasSlot(m, index)
    /\ slot_free(SlotAt(m, index))

(* C26: a key obtained from create_key and never inserted can be discarded    *)
(* with remove: afterwards insert_with_key(key, v) returns Err(v), len() is   *)
(* unchanged, and the key's slot is available for reuse by later inserts,     *)
(* whether that slot was freshly appended or recycled from the free list.     *)
C26_RemoveDiscardsCreatedKey ==
    [][(map_calls' = map_calls + 1
            /\ map_ret'.op = "remove"
            /\ map_ret'.key \in pending
            /\ map_ret'.ret # Panicked)
           => /\ \A v \in SlotValues :
                    insert_with_key(map', map_ret'.key, v).ret = Ret("Err", v)
              /\ map_len(map') = map_len(map)
              /\ NextReused(map', map_ret'.key[1])]_vars

Full == len >= PageCapacity

(* C28: every intern call that acquires the writer mutex releases it before   *)
(* returning, on both the re-probe-hit path and the insert path, so under     *)
(* fair scheduling and within capacity every intern call eventually returns   *)
(* and no thread waits for the mutex forever.                                 *)
C28_InternCallsReturn ==
    /\ [](\A t \in Threads : th[t].pc = "idle" => ~Holds(t))
    /\ \A t \in Threads : (th[t].pc \in InternPcs) ~> (th[t].pc = "idle" \/ Full)

\* the entries whose insertion is complete: those no call is still making
Created ==
    DOMAIN entries \ { th[t].entry : t \in { u \in Threads : th[u].pc # "return" } }

\* the places of entry a in the bucket chains
PlacesOf(a) ==
    { <<b, i>> \in (DOMAIN head) \X (1..Cardinality(DOMAIN entries)) :
          i <= Len(ChainOf(head[b])) /\ ChainOf(head[b])[i] = a }

(* C29: each bucket chain is a finite, acyclic, null-terminated list in which *)
(* every created entry appears exactly once in exactly one chain; a new entry *)
(* is linked only into an empty head or at the null tail, so a non-null head  *)
(* or next pointer never changes afterwards.                                  *)
C29_ChainsWellFormed ==
    /\ [](\A b \in DOMAIN head :
             LET chain == ChainOf(head[b])
             IN /\ chain # <<>> => entries[chain[Len(chain)]].next = NULL
                /\ \A i, j \in 1..Len(chain) : chain[i] = chain[j] => i = j)
    /\ [](\A a \in Created : Cardinality(PlacesOf(a)) = 1)
    /\ [][/\ \A b \in DOMAIN head : head[b] # NULL => head'[b] = head[b]
           /\ \A a \in DOMAIN entries :
                  entries[a].next # NULL => entries'[a].next = entries[a].next]_vars

\* one chain of two entries and one of one entry, all insertions complete
C29_Witness ==
    /\ \A t \in Threads : th[t].pc = "idle"
    /\ \E b, c \in DOMAIN head :
           /\ b # c
           /\ Len(ChainOf(head[b])) = 2
           /\ Len(ChainOf(head[c])) = 1
    /\ Cardinality(Created) = 3

\* the handles of the entries in the bucket chains
ReachableHandles == { entries[a].id : a \in Reachable }

(* C30: after an intern call has panicked while holding the writer mutex (for *)
(* example on handle-index overflow), the subsystem is poisoned: no later     *)
(* intern call ever creates a new entry or issues a new handle, because every *)
(* call that misses the lock-free probe panics when it tries to take the      *)
(* mutex.                                                                     *)
C30_PoisonedSubsystemIsFrozen ==
    /\ [](\A t \in Threads :
             (th[t].pc = "panicked" /\ (th[t].entry # NULL \/ SlicePanics(th[t].s)))
                 => mutex.poisoned)
    /\ [][mutex.poisoned =>
             /\ mutex'.poisoned
             /\ DOMAIN entries' = DOMAIN entries
             /\ head' = head
             /\ Reachable' = Reachable
             /\ len' = len
             /\ pages' = pages
             /\ IssuedHandles' \subseteq IssuedHandles \cup ReachableHandles
             /\ \A t \in Threads :
                    (th[t].pc = "lock" /\ th'[t] # th[t]) => th'[t].pc = "panicked"]_vars

\* one call has panicked in the push while it held the mutex, the other has
\* missed the probe and panicked at the poisoned mutex
C30_Witness ==
    /\ mutex.poisoned
    /\ \E t, u \in Threads :
           /\ th[t].pc = "panicked"
           /\ th[t].entry # NULL
           /\ th[u].pc = "panicked"
           /\ th[u].entry = NULL
           /\ ~SlicePanics(th[u].s)

(* C31: handle values never wrap around: no two entries carry the same handle *)
(* value and a handle about to be written is held by no entry, also when      *)
(* max_strings exceeds the largest handle value 2^IdBits - 1; the push at     *)
(* index 2^IdBits - 1, whose id + 1 does not fit, panics under the mutex      *)
(* without a handle, and no push follows it.                                  *)
C31_HandlesNeverWrap ==
    /\ \A a \in Identified, b \in Identified : a # b => entries[a].id # entries[b].id
    /\ \A t \in Threads :
           th[t].pc = "set_id" => \A a \in Identified : entries[a].id # th[t].id
    /\ \A a \in Identified : entries[a].id \in 1..(2 ^ IdBits - 1)
    /\ IssuedHandles \subseteq 1..(2 ^ IdBits - 1)
    /\ len <= 2 ^ IdBits
    /\ len = 2 ^ IdBits =>
           /\ mutex.poisoned
           /\ \E t \in Threads :
                  th[t].pc = "panicked" /\ th[t].entry # NULL /\ th[t].id = None

\* a subsystem for more strings than there are handle values, after the push at
\* index 2^IdBits - 1: every handle value is held and the pushing call panicked
C31_Witness ==
    /\ max_strings > 2 ^ IdBits - 1
    /\ len = 2 ^ IdBits
    /\ Cardinality(Identified) = 2 ^ IdBits - 1
    /\ mutex.poisoned
    /\ \E t \in Threads : th[t].pc = "panicked" /\ th[t].entry # NULL /\ th[t].id = None

\* the entries the first len slots of the StaticRefVector point to
Indexed == { get_unchecked(id) : id \in 1..len }

\* the push at the last index a StringId can hold has panicked
PushOverflowed ==
    /\ len = 2 ^ IdBits
    /\ \E t \in Threads : th[t].pc = "panicked" /\ th[t].entry # NULL

(* C32: for every handle h an intern call returned, the slot of h in the      *)
(* handle-index vector points to the entry that carries h, and that entry is  *)
(* in a bucket chain; whenever no intern call is in progress, the first len   *)
(* slots point to len different entries, which are exactly the entries in the *)
(* bucket chains.                                                             *)
C32_IndexMatchesChains ==
    /\ \A h \in IssuedHandles :
           /\ ~GetUncheckedUndefined(h)
           /\ get_unchecked(h) \in Reachable
           /\ entries[get_unchecked(h)].id = h
    /\ NoInternInProgress =>
           /\ Cardinality(Indexed) = len
           /\ Indexed = Reachable

(* C32 as amended: the same, but after the push at index 2^IdBits - 1 has     *)
(* panicked, the slot it wrote points to one entry more, which is in no       *)
(* bucket chain and carries no handle.                                        *)
C32_IndexMatchesChainsUntilOverflow ==
    /\ \A h \in IssuedHandles :
           /\ ~GetUncheckedUndefined(h)
           /\ get_unchecked(h) \in Reachable
           /\ entries[get_unchecked(h)].id = h
    /\ NoInternInProgress =>
           /\ Cardinality(Indexed) = len
           /\ IF PushOverflowed
              THEN /\ Indexed \ {get_unchecked(len)} = Reachable
                   /\ get_unchecked(len) \notin Reachable
                   /\ entries[get_unchecked(len)].id = None
              ELSE Indexed = Reachable

\* every handle value was returned, the push after them has panicked and no
\* call is in progress: the last slot points to an entry outside the chains
C32_Witness ==
    /\ NoInternInProgress
    /\ PushOverflowed
    /\ Cardinality(IssuedHandles) = 2 ^ IdBits - 1
    /\ Indexed \ {get_unchecked(len)} = Reachable

\* the first address after the entry e of pool.allocated
EntryEnd(e) == e.entry + DATA_OFFSET + e.len

(* C33: every entry the allocator produced lies within one page, starts at an *)
(* address aligned to the alignment of Entry and overlaps no other entry; the *)
(* bump pointer stays within the current page; and an allocation starts a new *)
(* page exactly when the capacity left is less than the header size plus the  *)
(* payload length.                                                            *)
C33_EntriesWithinPages ==
    /\ [](/\ \A i \in DOMAIN pool.allocated :
                LET e == pool.allocated[i]
                IN /\ e.entry % ENTRY_ALIGN = 0
                   /\ \E j \in DOMAIN pool.allocator.pools :
                          /\ pool.allocator.pools[j] <= e.entry
                          /\ EntryEnd(e) <= pool.allocator.pools[j] + POOL_PAGE_SIZE
                   /\ \A k \in DOMAIN pool.allocated :
                          k # i => \/ EntryEnd(e) <= pool.allocated[k].entry
                                   \/ EntryEnd(pool.allocated[k]) <= e.entry
          /\ pool.allocator.current_pool_start <= pool.allocator.current_pool_end
          /\ pool.allocator.pools # <<>> =>
                /\ pool.allocator.current_pool_end
                       = pool.allocator.pools[Len(pool.allocator.pools)] + POOL_PAGE_SIZE
                /\ pool.allocator.current_pool_start
                       >= pool.allocator.pools[Len(pool.allocator.pools)])
    /\ [][Len(pool'.allocated) > Len(pool.allocated) =>
             (Len(pool'.allocator.pools) = Len(pool.allocator.pools) + 1
                 <=> capacity_of(pool.allocator)
                        < DATA_OFFSET + pool'.allocated[Len(pool'.allocated)].len)
             /\ (Len(pool'.allocator.pools) = Len(pool.allocator.pools)
                 <=> capacity_of(pool.allocator)
                        >= DATA_OFFSET + pool'.allocated[Len(pool'.allocated)].len)]_vars

\* two entries share the first page, the second ends at an address that is not
\* aligned and leaves room on the page, and the third one, too long for that
\* room, started a second page
C33_Witness ==
    /\ Len(pool.allocated) = 3
    /\ Len(pool.allocator.pools) = 2
    /\ pool.allocated[2].entry > pool.allocated[1].entry
    /\ pool.allocated[2].entry < pool.allocator.pools[1] + POOL_PAGE_SIZE
    /\ EntryEnd(pool.allocated[2]) % ENTRY_ALIGN # 0
    /\ EntryEnd(pool.allocated[2]) + aligned_offset(EntryEnd(pool.allocated[2]))
           < pool.allocator.pools[1] + POOL_PAGE_SIZE
    /\ pool.allocated[3].entry = pool.allocator.pools[2]
    /\ pool.allocator.current_pool_start < pool.allocator.current_pool_end

(* C34: equal views hash equally: whenever two Text values, or two Name       *)
(* values, compare equal with ==, what their Hash implementations write to    *)
(* the hasher is the same, also for views of two different subsystems.         *)
C34_EqualViewsHashEqually ==
    \A i \in DOMAIN views, j \in DOMAIN views :
        /\ (views[i].kind = "text" /\ views[j].kind = "text" /\ text_eq(i, j))
               => text_hash(views[i]) = text_hash(views[j])
        /\ (views[i].kind = "name" /\ views[j].kind = "name" /\ view_name_eq(i, j))
               => view_name_hash(views[i]) = view_name_hash(views[j])

(* C35: two Names of the same subsystem compare equal exactly when their full *)
(* texts (string part plus decimal number) are the same bytes, whether they   *)
(* were made by Name::new or from a Text.                                     *)
C35_NameEqualityIsTextEquality ==
    \A i \in DOMAIN views, j \in DOMAIN views :
        (/\ views[i].kind = "name"
         /\ views[j].kind = "name"
         /\ views[i].system = views[j].system)
            => (view_name_eq(i, j)
                   <=> view_to_string(views[i]) = view_to_string(views[j]))

RECURSIVE FreeListEnds(_, _, _)
\* the free list of the map m from `index` on links only free slots no pending
\* key of create_key refers to, and ends at slots.len() within `fuel` links
FreeListEnds(m, index, fuel) ==
    IF index = Len(m.slots) THEN TRUE
    ELSE IF fuel = 0 \/ ~HasSlot(m, index) THEN FALSE
    ELSE /\ slot_free(SlotAt(m, index))
         /\ SlotAt(m, index).entry.kind = "Index"
         /\ \A key \in pending : key[1] # index
         /\ FreeListEnds(m, SlotAt(m, index).entry.x, fuel - 1)

(* C36: while the map has fewer than Idx::MAX slots, no call of insert or of  *)
(* create_key panics, and when no call has panicked the free list from        *)
(* free_head links only free slots, none of them handed out by create_key,    *)
(* and ends at slots.len().                                                   *)
C36_CreateNeverPanics ==
    /\ (map_ret.op \in {"insert", "create_key"} /\ Len(map.slots) < Idx_MAX)
           => map_ret.ret # Panicked
    /\ map_ret.ret # Panicked => FreeListEnds(map, map.free_head, Len(map.slots))

\* the slots of the map that are occupied
OccupiedSlots == { index \in 0..(Len(map.slots) - 1) : slot_occupied(SlotAt(map, index)) }

\* the keys the map contains, of all the index and version pairs
ContainedKeys ==
    { key \in (0..(Len(map.slots) - 1)) \X (0..max_version) : contains_key(map, key) }

(* C37: after every call of insert, create_key, insert_with_key, remove,      *)
(* clear, retain or drain that returned, len() is the number of occupied      *)
(* slots, which is the number of keys contains_key is true of; after clear    *)
(* and drain it is 0.                                                         *)
C37_LenCountsOccupiedSlots ==
    map_ret.ret # Panicked =>
        /\ map_len(map) = Cardinality(OccupiedSlots)
        /\ map_len(map) = Cardinality(ContainedKeys)
        /\ map_ret.op \in {"clear", "drain"} => map_len(map) = 0

\* a drain that took two values out of the map, whose two slots are free again
C37_Witness ==
    /\ map_ret.op = "drain"
    /\ map_ret.ret = Ret("Drained", 2)
    /\ Len(map.slots) = 2
    /\ map_len(map) = 0
    /\ OccupiedSlots = {}

(* C38: the version of every slot, and of every key the map has returned, is  *)
(* within 1..max_version, and a remove with a key of version max_version that *)
(* finds its slot occupied or reserved returns and leaves the slot at         *)
(* version 1.                                                                 *)
C38_VersionsStayInRange ==
    /\ \A index \in 0..(Len(map.slots) - 1) :
           slot_version(SlotAt(map, index)) \in 1..max_version
    /\ \A key \in given : key[2] \in 1..max_version
    /\ (/\ map_ret.op = "remove"
        /\ map_ret.key[2] = max_version
        /\ map_ret.ret.tag \in {"Some", "panic"})
           => /\ map_ret.ret # Panicked
              /\ slot_version(SlotAt(map, map_ret.key[1])) = 1

\* the pages of the StaticRefVector that have been created
PagesInUse == { p \in DOMAIN pages : pages[p].present }

(* C39: num_pages() is the number of pages of the handle-index vector in use, *)
(* the least number of pages that hold len elements, for every len; while no  *)
(* push is between its write of the slot and its store of len, that is the    *)
(* number of pages created.                                                   *)
C39_NumPagesIsPagesInUse ==
    /\ num_pages = (len + ELEMENTS_PER_PAGE - 1) \div ELEMENTS_PER_PAGE
    /\ (\A t \in Threads : th[t].pc # "push_len")
           => num_pages = Cardinality(PagesInUse)

====
